---- MODULE Spec2Model ----
(***************************************************************************)
(* Model of talia: WHOIS lookups (whois.go), the batch check of a domain   *)
(* list (cli.go, progress.go) and the grouped store with its merge and     *)
(* its atomic rewrite (grouped.go).                                        *)
(*                                                                         *)
(* Domain names are small integers, ordered like the strings "a.com" <     *)
(* "b.com".  Texts (WHOIS responses, logs) are sequences of                *)
(* tokens; the empty text is <<>>.                                         *)
(***************************************************************************)
EXTENDS Integers, Sequences, FiniteSets, TLC

VARIABLES
    \* ---- batch check (checkDomains) ----
    domains,      \* the input list of domain names
    concurrency,  \* 0 = sequential, N > 0 = pool of N workers, Unbounded
    verbose,      \* the --verbose flag
    pc,           \* position of the checkDomains call
    idx,          \* sequential loop: index of the current domain
    results,      \* the result list being built
    progCurrent,  \* progress.current
    stats,        \* checkStats: available, taken, errors
    envOf,        \* history: what the network did for the lookup of index i
    jobs,         \* parallel mode: indices not yet handed to a worker
    workers,      \* parallel mode: worker id -> [st, job, res]
    attempts,     \* history: how many lookups of index i were started
    sleeps,       \* history: how many times the sequential loop slept
    obtained,     \* history: the values the increments of the counter gave
    mu,           \* progress.mu: 0 when free, else the worker holding it
    printed,      \* history: how many progress lines index i got
    written,      \* history: how many times the result of index i was written
    \* ---- grouped store (WriteGroupedFile, RunCLIGroupedInput) ----
    dest,         \* content of the destination file
    tmpFile,      \* content of the temporary file of the running call
    wpc,          \* position of the WriteGroupedFile call
    newest,       \* the batch handed to the running call
    existing,     \* the store as read by the running call
    out,          \* the serialized merged store of the running call
    werr,         \* the error the call returned ("nil" for none)
    destAtStart,  \* history: content of the destination when the call began
    prevBatch,    \* history: the batch of the preceding operation, if that
                  \* was a successful WriteGroupedFile call ({} otherwise)
    repeat,       \* history: the running call got the batch of prevBatch
    latest,       \* history: for each watched domain, its entries in the
                  \* most recent batch a call wrote since the last other
                  \* writer
    ginput,       \* history: the RunCLIGroupedInput run that was the last
                  \* operation on the file, if any
    \* ---- one lookup, step by step (NetWhoisClient.Lookup) ----
    lenv,         \* what the network does during this lookup
    lpc,          \* position of the Lookup call
    conn,         \* the connection: "none", "open", "halfclosed", "closed"
    lret,         \* what Lookup returned: [resp, err]
    lclass,       \* what CheckDomainAvailabilityWithClient returned
    ltrace,       \* history: the operations done on the network, in order
    lcheck,       \* the checkResult built from it
    \* ---- one run of RunCLIDomainArray ----
    groupedOutput,  \* the flag groupedOutput of the run
    outputFile,     \* the output path of the run ("" for none)
    inputFile,      \* content of the file at inputPath
    \* ---- the spinner (progress.go) ----
    caller,       \* position of the goroutine that starts and stops it
    spc,          \* position of the spinner goroutine
    stopCh,       \* the channel s.stop: "open" or "closed"
    doneCh,       \* the channel s.done: "open" or "closed"
    frameNo,      \* the counter i of the goroutine
    shown,        \* the index of the last frame written
    line          \* the spinner's line of the terminal: "blank", "frame" or
                  \* "cleared"

batchVars == <<domains, concurrency, verbose, pc, idx, results, progCurrent,
               stats, envOf, jobs, workers, attempts, sleeps, obtained, mu,
               printed, written>>
storeVars == <<dest, tmpFile, wpc, newest, existing, out, werr, destAtStart,
               prevBatch, repeat, latest, ginput>>
lookupVars == <<lenv, lpc, conn, lret, lclass, lcheck, ltrace>>
runVars == <<groupedOutput, outputFile, inputFile>>
spinnerVars == <<caller, spc, stopCh, doneCh, frameNo, shown, line>>
vars == <<batchVars, storeVars, lookupVars, runVars, spinnerVars>>

(***************************************************************************)
(* Bounds of the model.                                                    *)
(***************************************************************************)
MaxDomains == 3
MaxWorkers == 2
MaxJobs == 2
MaxBatch == 2
MaxLegacy == 2
MaxUnverified == 1
MaxStore == 2
MaxFrames == 20

\* The domain names of the model: 1 stands for "a.com", 2 for "b.com".
Domains == {1, 2}

(***************************************************************************)
(* types.go                                                                *)
(***************************************************************************)
ReasonNoMatch == "NO_MATCH"
ReasonTaken == "TAKEN"
ReasonError == "ERROR"
AvailabilityReason == {ReasonNoMatch, ReasonTaken, ReasonError}

(***************************************************************************)
(* whois.go: one Lookup, as a function of what the network does.           *)
(***************************************************************************)
NoMatchFor == "No match for"
RespEmpty == <<>>
RespNoMatch == <<NoMatchFor, "example.com">>
RespNoMatchInside == <<"NOTICE:", NoMatchFor, "example.com">>
RespTaken == <<"Domain Name:", "example.com">>

ErrNil == "nil"
ErrEOF == "EOF"
ErrReset == "connection reset by peer"
ErrBrokenPipe == "broken pipe"
ErrClosed == "connection closed"
ErrTimeout == "i/o timeout"

\* What the network does during one lookup: whether the dial and the write
\* succeed, the bytes the peer sent before it closed, and the error (if any)
\* with which the read ended.
NetEnv(dial, write, closeWrite, data, readErr) ==
    [dial |-> dial, write |-> write, closeWrite |-> closeWrite,
     data |-> data, readErr |-> readErr]

EnvDialFail == NetEnv(FALSE, FALSE, FALSE, RespEmpty, ErrNil)
EnvEmptyEOF == NetEnv(TRUE, TRUE, TRUE, RespEmpty, ErrNil)
EnvNoMatch == NetEnv(TRUE, TRUE, TRUE, RespNoMatch, ErrNil)
EnvTaken == NetEnv(TRUE, TRUE, TRUE, RespTaken, ErrNil)

\* Every network behaviour of the model.
Responses == {RespEmpty, RespNoMatch, RespNoMatchInside, RespTaken}
ReadErrs == {ErrNil, ErrReset, ErrBrokenPipe, ErrClosed, ErrTimeout}
LookupEnvs ==
    [dial : BOOLEAN, write : BOOLEAN, closeWrite : BOOLEAN,
     data : Responses, readErr : ReadErrs]

\* The network behaviours a lookup of the batch check is drawn from.
BatchEnvs == {EnvDialFail, EnvEmptyEOF, EnvNoMatch, EnvTaken}

Contains(text, tok) == \E i \in 1..Len(text) : text[i] = tok

LookupResult(resp, err) == [resp |-> resp, err |-> err]

\* The read section of Lookup without the zero-length check.
ReadResultNoEmptyCheck(data, readErr) ==
    IF readErr # ErrNil /\ readErr # ErrEOF
    THEN IF readErr \in {ErrReset, ErrBrokenPipe, ErrClosed}
         THEN LookupResult(<<>>, "empty WHOIS response")
         ELSE LookupResult(<<>>, "read error")
    ELSE LookupResult(data, ErrNil)

\* A read section that reports every failed read as a read error.
ReadResultNoRemap(data, readErr) ==
    IF readErr # ErrNil /\ readErr # ErrEOF
    THEN LookupResult(<<>>, "read error")
    ELSE IF Len(data) = 0
         THEN LookupResult(<<>>, "empty WHOIS response")
         ELSE LookupResult(data, ErrNil)

\* A read section that returns the bytes it got together with the error.
ReadResultKeepData(data, readErr) ==
    IF readErr # ErrNil /\ readErr # ErrEOF
    THEN IF readErr \in {ErrReset, ErrBrokenPipe, ErrClosed}
         THEN LookupResult(data, "empty WHOIS response")
         ELSE LookupResult(data, "read error")
    ELSE IF Len(data) = 0
         THEN LookupResult(<<>>, "empty WHOIS response")
         ELSE LookupResult(data, ErrNil)

\* io.ReadAll and the checks after it.
ReadResult(data, readErr) ==
    IF readErr # ErrNil /\ readErr # ErrEOF
    THEN IF readErr \in {ErrReset, ErrBrokenPipe, ErrClosed}
         THEN LookupResult(<<>>, "empty WHOIS response")
         ELSE LookupResult(<<>>, "read error")
    ELSE IF Len(data) = 0
         THEN LookupResult(<<>>, "empty WHOIS response")
         ELSE LookupResult(data, ErrNil)

\* NetWhoisClient.Lookup
Lookup(env) ==
    IF ~env.dial THEN LookupResult(<<>>, "failed to connect to WHOIS")
    ELSE IF ~env.write THEN LookupResult(<<>>, "write error")
    ELSE ReadResult(env.data, env.readErr)

\* A classification that looks at the response whether or not the lookup
\* failed.
ClassifyWithoutErrorCheck(r) ==
    IF Contains(r.resp, NoMatchFor)
    THEN [avail |-> TRUE, reason |-> ReasonNoMatch, logData |-> r.resp,
          err |-> r.err]
    ELSE [avail |-> FALSE, reason |-> ReasonTaken, logData |-> r.resp,
          err |-> r.err]

\* A classification that reports a failed lookup as a taken domain.
ClassifyErrorAsTaken(r) ==
    IF r.err # ErrNil
    THEN [avail |-> FALSE, reason |-> ReasonTaken, logData |-> <<r.err>>,
          err |-> r.err]
    ELSE IF Contains(r.resp, NoMatchFor)
    THEN [avail |-> TRUE, reason |-> ReasonNoMatch, logData |-> r.resp,
          err |-> ErrNil]
    ELSE [avail |-> FALSE, reason |-> ReasonTaken, logData |-> r.resp,
          err |-> ErrNil]

\* CheckDomainAvailabilityWithClient, applied to the result of the lookup.
CheckDomainAvailabilityWithClient(r) ==
    IF r.err # ErrNil
    THEN [avail |-> FALSE, reason |-> ReasonError, logData |-> <<r.err>>,
          err |-> r.err]
    ELSE IF Contains(r.resp, NoMatchFor)
    THEN [avail |-> TRUE, reason |-> ReasonNoMatch, logData |-> r.resp,
          err |-> ErrNil]
    ELSE [avail |-> FALSE, reason |-> ReasonTaken, logData |-> r.resp,
          err |-> ErrNil]

(***************************************************************************)
(* cli.go: the batch check.                                                *)
(***************************************************************************)
Unbounded == -1

\* A log that is kept in verbose mode only.
shouldIncludeLogVerbose(v, reason) == v

shouldIncludeLog(v, reason) == v \/ reason = ReasonError

\* The checkResult of one domain: the body of the loop of checkDomains from
\* the return of the lookup to the construction of the result.
checkResultOf(domain, r, v) ==
    LET c == CheckDomainAvailabilityWithClient(r)
        avail == IF c.err # ErrNil THEN FALSE ELSE c.avail
        reason == IF c.err # ErrNil THEN ReasonError ELSE c.reason
        logData == IF c.err # ErrNil THEN <<"Error:", c.err>> ELSE c.logData
    IN [Domain |-> domain, Avail |-> avail, Reason |-> reason,
        Log |-> IF shouldIncludeLog(v, reason) THEN logData ELSE <<>>]

checkResult(domain, env, v) == checkResultOf(domain, Lookup(env), v)

\* progress.go: checkStats.Record
Record(s, available, reason) ==
    IF reason = ReasonError THEN [s EXCEPT !.errors = @ + 1]
    ELSE IF available THEN [s EXCEPT !.available = @ + 1]
    ELSE [s EXCEPT !.taken = @ + 1]

PrependResult(rs, r) == <<r>> \o rs

\* results = append(results, checkResult{...})
AppendResult(rs, r) == Append(rs, r)

(***************************************************************************)
(* types.go and encoding/json: the store and the content of a file.        *)
(***************************************************************************)
GroupedDomain(domain, reason, log) ==
    [domain |-> domain, reason |-> reason, log |-> log]

DomainRecord(domain, available, reason, log) ==
    [domain |-> domain, available |-> available, reason |-> reason,
     log |-> log]

GroupedData(available, unavailable) ==
    [available |-> available, unavailable |-> unavailable]

EmptyGrouped == GroupedData(<<>>, <<>>)

\* The entries a store or a batch has for domain d, each with its bucket.
Entries(gd, d) ==
    {[bucket |-> "available", rec |-> gd.available[i]] :
        i \in {j \in 1..Len(gd.available) : gd.available[j].domain = d}}
    \cup
    {[bucket |-> "unavailable", rec |-> gd.unavailable[i]] :
        i \in {j \in 1..Len(gd.unavailable) : gd.unavailable[j].domain = d}}

\* The history of the watched domains ds before the first batch.
NoLatest(ds) == [d \in ds |-> {}]

\* The history after a call wrote the batch nw.
RecordBatch(lat, nw) ==
    [d \in DOMAIN lat |->
        IF Entries(nw, d) # {} THEN Entries(nw, d) ELSE lat[d]]

\* The content of a file: no file, a file of zero bytes, bytes that are no
\* JSON of a known shape, the truncated prefix of a serialization, a JSON
\* object with the lists available, unavailable and unverified, a JSON
\* object with none of these fields, or a JSON array of domain records.
File(shape, available, unavailable, unverified, array) ==
    [shape |-> shape, available |-> available, unavailable |-> unavailable,
     unverified |-> unverified, array |-> array]

AbsentFile == File("absent", <<>>, <<>>, <<>>, <<>>)
EmptyFile == File("empty", <<>>, <<>>, <<>>, <<>>)
CorruptFile == File("corrupt", <<>>, <<>>, <<>>, <<>>)
PartialFile == File("partial", <<>>, <<>>, <<>>, <<>>)
ForeignFile == File("foreign", <<>>, <<>>, <<>>, <<>>)
ObjectFile(av, un, unv) == File("object", av, un, unv, <<>>)
ArrayFile(arr) == File("array", <<>>, <<>>, <<>>, arr)

\* json.MarshalIndent of a GroupedData
MarshalGrouped(gd) == ObjectFile(gd.available, gd.unavailable, <<>>)

\* json.MarshalIndent of an ExtendedGroupedData
MarshalExtended(av, un, unv) == ObjectFile(av, un, unv)

\* json.Unmarshal into a GroupedData succeeds on a JSON object, whatever its
\* fields are, and keeps the fields available and unavailable.
IsObject(f) == f.shape \in {"object", "foreign"}
UnmarshalGrouped(f) == GroupedData(f.available, f.unavailable)

\* json.Unmarshal into a []DomainRecord succeeds on a JSON array.
IsArray(f) == f.shape = "array"

(***************************************************************************)
(* grouped.go                                                              *)
(***************************************************************************)
\* A loop that keeps only the last record of the list.
PutLast(m, list) ==
    IF list = <<>> THEN m
    ELSE LET gd == list[Len(list)]
         IN [d \in DOMAIN m \cup {gd.domain} |->
               IF d = gd.domain THEN gd ELSE m[d]]

\* A loop that keeps the record a domain already has in the map.
RECURSIVE PutFirst(_, _)
PutFirst(m, list) ==
    IF list = <<>> THEN m
    ELSE LET gd == Head(list)
             m1 == [d \in DOMAIN m \cup {gd.domain} |->
                      IF d \in DOMAIN m THEN m[d] ELSE gd]
         IN PutFirst(m1, Tail(list))

\* for _, gd := range list { m[gd.Domain] = gd }
RECURSIVE PutAll(_, _)
PutAll(m, list) ==
    IF list = <<>> THEN m
    ELSE LET gd == Head(list)
             m1 == [d \in DOMAIN m \cup {gd.domain} |->
                      IF d = gd.domain THEN gd ELSE m[d]]
         IN PutAll(m1, Tail(list))

\* for _, gd := range list { delete(m, gd.Domain) }
RECURSIVE DeleteAll(_, _)
DeleteAll(m, list) ==
    IF list = <<>> THEN m
    ELSE LET gd == Head(list)
             m1 == [d \in DOMAIN m \ {gd.domain} |-> m[d]]
         IN DeleteAll(m1, Tail(list))

EmptyMap == [d \in {} |-> EmptyGrouped]

\* The orders in which "for _, rec := range m" may visit the map.
Listings(m) ==
    LET n == Cardinality(DOMAIN m)
    IN {[i \in 1..n |-> m[p[i]]] :
           p \in {q \in [1..n -> DOMAIN m] :
                    \A i, j \in 1..n : i # j => q[i] # q[j]}}

\* sort.Slice(list, less by Domain) on a list of distinct domains
RECURSIVE SortSlice(_)
SortSlice(list) ==
    IF list = <<>> THEN <<>>
    ELSE LET i == CHOOSE k \in 1..Len(list) :
                      \A j \in 1..Len(list) : list[k].domain <= list[j].domain
             rest == [j \in 1..(Len(list) - 1) |->
                        IF j < i THEN list[j] ELSE list[j + 1]]
         IN <<list[i]>> \o SortSlice(rest)

\* The records of a map listed from the greatest domain to the least.
RECURSIVE SortedDescending(_)
SortedDescending(m) ==
    IF DOMAIN m = {} THEN <<>>
    ELSE LET most == CHOOSE d \in DOMAIN m : \A e \in DOMAIN m : e <= d
         IN <<m[most]>> \o
            SortedDescending([d \in DOMAIN m \ {most} |-> m[d]])

\* The records of a map as a list sorted by domain (append in any order,
\* then sort.Slice on the keys of the map, which are distinct).
RECURSIVE SortedValues(_)
SortedValues(m) ==
    IF DOMAIN m = {} THEN <<>>
    ELSE LET least == CHOOSE d \in DOMAIN m : \A e \in DOMAIN m : d <= e
         IN <<m[least]>> \o SortedValues([d \in DOMAIN m \ {least} |-> m[d]])

\* mergeGrouped without the removal of the key from the opposite bucket
mergeGroupedNoDelete(ex, nw) ==
    LET domainsAvail == PutAll(PutAll(EmptyMap, ex.available), nw.available)
        domainsUnavail ==
            PutAll(PutAll(EmptyMap, ex.unavailable), nw.unavailable)
    IN GroupedData(SortedValues(domainsAvail), SortedValues(domainsUnavail))

\* a merge that appends the newest lists to the existing ones
mergeGroupedAppend(ex, nw) ==
    GroupedData(ex.available \o nw.available,
                ex.unavailable \o nw.unavailable)

\* a merge in which the record the store has for a domain stays
mergeGroupedKeepOld(ex, nw) ==
    LET avail0 == PutAll(EmptyMap, nw.available)
        unavail0 == PutAll(EmptyMap, nw.unavailable)
        avail1 == PutAll(avail0, ex.available)
        unavail1 == DeleteAll(unavail0, ex.available)
        unavail2 == PutAll(unavail1, ex.unavailable)
        avail2 == DeleteAll(avail1, ex.unavailable)
    IN GroupedData(SortedValues(avail2), SortedValues(unavail2))

\* The loops over the newest batch in the other order: the unavailable list
\* first, the available list second.
mergedMapsUnavailFirst(ex, nw) ==
    LET avail0 == PutAll(EmptyMap, ex.available)
        unavail0 == PutAll(EmptyMap, ex.unavailable)
        unavail1 == PutAll(unavail0, nw.unavailable)
        avail1 == DeleteAll(avail0, nw.unavailable)
        avail2 == PutAll(avail1, nw.available)
        unavail2 == DeleteAll(unavail1, nw.available)
    IN [domainsAvail |-> avail2, domainsUnavail |-> unavail2]

\* The two maps of mergeGrouped after its four loops.
mergedMaps(ex, nw) ==
    LET avail0 == PutAll(EmptyMap, ex.available)
        unavail0 == PutAll(EmptyMap, ex.unavailable)
        avail1 == PutAll(avail0, nw.available)
        unavail1 == DeleteAll(unavail0, nw.available)
        unavail2 == PutAll(unavail1, nw.unavailable)
        avail2 == DeleteAll(avail1, nw.unavailable)
    IN [domainsAvail |-> avail2, domainsUnavail |-> unavail2]

mergeGrouped(ex, nw) ==
    LET m == mergedMaps(ex, nw)
    IN GroupedData(SortedValues(m.domainsAvail),
                   SortedValues(m.domainsUnavail))

\* ConvertArrayToGrouped with the test of the flag inverted.
RECURSIVE ConvertArrayInverted(_)
ConvertArrayInverted(arr) ==
    IF arr = <<>> THEN EmptyGrouped
    ELSE LET rec == Head(arr)
             gDom == GroupedDomain(rec.domain, rec.reason, rec.log)
             rest == ConvertArrayInverted(Tail(arr))
         IN IF ~rec.available
            THEN GroupedData(<<gDom>> \o rest.available, rest.unavailable)
            ELSE GroupedData(rest.available, <<gDom>> \o rest.unavailable)

RECURSIVE ConvertArrayToGrouped(_)
ConvertArrayToGrouped(arr) ==
    IF arr = <<>> THEN EmptyGrouped
    ELSE LET rec == Head(arr)
             gDom == GroupedDomain(rec.domain, rec.reason, rec.log)
             rest == ConvertArrayToGrouped(Tail(arr))
         IN IF rec.available
            THEN GroupedData(<<gDom>> \o rest.available, rest.unavailable)
            ELSE GroupedData(rest.available, <<gDom>> \o rest.unavailable)

(***************************************************************************)
(* cli.go: from check results to buckets.                                  *)
(***************************************************************************)
\* The network behaviours a lookup of a store operation is drawn from.
StoreEnvs == {EnvEmptyEOF, EnvNoMatch, EnvTaken}

\* checkDomains as a function: the results of the domain list ds when the
\* network behaves as envs[i] during the lookup of ds[i].
checkDomains(ds, envs, v) ==
    [i \in 1..Len(ds) |-> checkResult(ds[i], envs[i], v)]

\* for _, res := range results { ... append to Available or Unavailable }
RECURSIVE AppendResults(_, _)
AppendResults(gd, rs) ==
    IF rs = <<>> THEN gd
    ELSE LET res == Head(rs)
             g == GroupedDomain(res.Domain, res.Reason, res.Log)
         IN AppendResults(
                IF res.Avail
                THEN GroupedData(Append(gd.available, g), gd.unavailable)
                ELSE GroupedData(gd.available, Append(gd.unavailable, g)),
                Tail(rs))

\* The entry of envOf for an index whose lookup has not returned.
NoEnv == NetEnv(FALSE, FALSE, FALSE, <<"no lookup yet">>, ErrNil)
ZeroResult == [Domain |-> 0, Avail |-> FALSE, Reason |-> "", Log |-> <<>>]

LenBounded(S, n) == UNION {[1..k -> S] : k \in 0..n}

\* The list of the first k domain names.
DomainList(k) == [i \in 1..k |-> i]

\* Five domains checked by a pool of two workers.
ScenarioSize == 5
ScenarioDomains == DomainList(ScenarioSize)
ScenarioConcurrency == 2

SeqStart ==
    /\ pc = "start"
    /\ concurrency = 0
    /\ pc' = "seq"
    /\ idx' = 1
    /\ UNCHANGED <<domains, concurrency, verbose, results, progCurrent, stats,
                   envOf, jobs, workers, attempts, sleeps, obtained, mu,
                   printed, written, storeVars, lookupVars, runVars,
                   spinnerVars>>

\* prog.Increment() and the start of the lookup of domains[idx]
SeqLookupStart ==
    /\ pc = "seq"
    /\ idx <= Len(domains)
    /\ progCurrent' = progCurrent + 1
    /\ obtained' = obtained \cup {progCurrent + 1}
    /\ attempts' = [attempts EXCEPT ![idx] = @ + 1]
    /\ pc' = "lookup"
    /\ UNCHANGED <<domains, concurrency, verbose, idx, results, stats, envOf,
                   jobs, workers, sleeps, mu, printed, written, storeVars,
                   lookupVars, runVars, spinnerVars>>

\* The end of an iteration that leaves the loop when the lookup failed.
SeqLookupFinishAbort ==
    /\ pc = "lookup"
    /\ \E env \in BatchEnvs :
         LET r == checkResult(domains[idx], env, verbose) IN
         /\ stats' = Record(stats, r.Avail, r.Reason)
         /\ results' = AppendResult(results, r)
         /\ envOf' = [envOf EXCEPT ![idx] = env]
         /\ pc' = IF r.Reason = ReasonError THEN "returned" ELSE "sleep"
    /\ printed' = [printed EXCEPT ![idx] = @ + 1]
    /\ written' = [written EXCEPT ![idx] = @ + 1]
    /\ UNCHANGED <<domains, concurrency, verbose, idx, progCurrent, jobs,
                   workers, attempts, sleeps, obtained, mu, storeVars,
                   lookupVars, runVars, spinnerVars>>

\* The end of an iteration that goes to the next domain without the sleep
\* when the lookup failed.
SeqLookupFinishNoSleep ==
    /\ pc = "lookup"
    /\ \E env \in BatchEnvs :
         LET r == checkResult(domains[idx], env, verbose) IN
         /\ stats' = Record(stats, r.Avail, r.Reason)
         /\ results' = AppendResult(results, r)
         /\ envOf' = [envOf EXCEPT ![idx] = env]
         /\ IF r.Reason = ReasonError
            THEN pc' = "seq" /\ idx' = idx + 1
            ELSE pc' = "sleep" /\ idx' = idx
    /\ printed' = [printed EXCEPT ![idx] = @ + 1]
    /\ written' = [written EXCEPT ![idx] = @ + 1]
    /\ UNCHANGED <<domains, concurrency, verbose, progCurrent, jobs, workers,
                   attempts, sleeps, obtained, mu, storeVars, lookupVars,
                   runVars, spinnerVars>>

\* the lookup returns; the line is printed, the result is recorded and
\* appended
SeqLookupFinish ==
    /\ pc = "lookup"
    /\ \E env \in BatchEnvs :
         LET r == checkResult(domains[idx], env, verbose) IN
         /\ stats' = Record(stats, r.Avail, r.Reason)
         /\ results' = AppendResult(results, r)
         /\ envOf' = [envOf EXCEPT ![idx] = env]
    /\ printed' = [printed EXCEPT ![idx] = @ + 1]
    /\ written' = [written EXCEPT ![idx] = @ + 1]
    /\ pc' = "sleep"
    /\ UNCHANGED <<domains, concurrency, verbose, idx, progCurrent, jobs,
                   workers, attempts, sleeps, obtained, mu, storeVars,
                   lookupVars, runVars, spinnerVars>>

\* time.Sleep(sleep), then the next iteration
SeqSleep ==
    /\ pc = "sleep"
    /\ sleeps' = sleeps + 1
    /\ idx' = idx + 1
    /\ pc' = "seq"
    /\ UNCHANGED <<domains, concurrency, verbose, results, progCurrent, stats,
                   envOf, jobs, workers, attempts, obtained, mu, printed,
                   written, storeVars, lookupVars, runVars, spinnerVars>>

SeqReturn ==
    /\ pc = "seq"
    /\ idx > Len(domains)
    /\ pc' = "returned"
    /\ UNCHANGED <<domains, concurrency, verbose, idx, results, progCurrent,
                   stats, envOf, jobs, workers, attempts, sleeps, obtained,
                   mu, printed, written, storeVars, lookupVars, runVars,
                   spinnerVars>>

(***************************************************************************)
(* Parallel mode: a fixed set of workers takes indexed jobs from a queue   *)
(* and writes each result into the input position of a pre-sized list.     *)
(* After its lookup a worker calls progress.IncrementAndPrint and          *)
(* checkStats.Record (progress.go).                                        *)
(***************************************************************************)
Min(a, b) == IF a < b THEN a ELSE b

\* The goroutines of the pool exist from the start of the pool on; nothing
\* stops one that is still running when the call returns.
PoolRunning == pc \in {"par", "returned", "persist"}

\* A pool with one worker per domain whatever the concurrency setting.
WorkerCountPerDomain(n, d) == d

WorkerCount(n, d) == IF n = Unbounded THEN d ELSE Min(n, d)

Worker(st, job, res) == [st |-> st, job |-> job, res |-> res]

IdleWorker == Worker("idle", 0, ZeroResult)

ParStart ==
    /\ pc = "start"
    /\ concurrency # 0
    /\ results' = [i \in 1..Len(domains) |-> ZeroResult]
    /\ jobs' = [i \in 1..Len(domains) |-> i]
    /\ workers' = [w \in 1..WorkerCount(concurrency, Len(domains)) |->
                     IdleWorker]
    /\ pc' = "par"
    /\ UNCHANGED <<domains, concurrency, verbose, idx, progCurrent, stats,
                   envOf, attempts, sleeps, obtained, mu, printed, written,
                   storeVars, lookupVars, runVars, spinnerVars>>

\* A worker that starts the job at the head of the queue and leaves it
\* there for the next worker.
WorkerTakeNoDequeue(w) ==
    /\ PoolRunning
    /\ workers[w].st = "idle"
    /\ jobs # <<>>
    /\ workers' = [workers EXCEPT ![w] = Worker("lookup", Head(jobs),
                                                  ZeroResult)]
    /\ attempts' = [attempts EXCEPT ![Head(jobs)] = @ + 1]
    /\ jobs' = IF attempts[Head(jobs)] > 0 THEN Tail(jobs) ELSE jobs
    /\ UNCHANGED <<domains, concurrency, verbose, pc, idx, results,
                   progCurrent, stats, envOf, sleeps, obtained, mu, printed,
                   written, storeVars, lookupVars, runVars, spinnerVars>>

\* a worker receives the next job and starts its lookup
WorkerTake(w) ==
    /\ PoolRunning
    /\ workers[w].st = "idle"
    /\ jobs # <<>>
    /\ workers' = [workers EXCEPT ![w] = Worker("lookup", Head(jobs),
                                                  ZeroResult)]
    /\ attempts' = [attempts EXCEPT ![Head(jobs)] = @ + 1]
    /\ jobs' = Tail(jobs)
    /\ UNCHANGED <<domains, concurrency, verbose, pc, idx, results,
                   progCurrent, stats, envOf, sleeps, obtained, mu, printed,
                   written, storeVars, lookupVars, runVars, spinnerVars>>

\* the lookup of the worker returns and is classified
WorkerFinish(w) ==
    /\ PoolRunning
    /\ workers[w].st = "lookup"
    /\ \E env \in BatchEnvs :
         LET i == workers[w].job
             r == checkResult(domains[i], env, verbose) IN
         /\ envOf' = [envOf EXCEPT ![i] = env]
         /\ workers' = [workers EXCEPT ![w] = Worker("add", i, r)]
    /\ UNCHANGED <<domains, concurrency, verbose, pc, idx, results,
                   progCurrent, stats, jobs, attempts, sleeps, obtained, mu,
                   printed, written, storeVars, lookupVars, runVars,
                   spinnerVars>>

\* An increment that reads the counter and writes it back in two steps:
\* the write of a worker is lost when another worker is between the two.
IncrementAndPrintAddRacy(w) ==
    /\ PoolRunning
    /\ workers[w].st = "add"
    /\ progCurrent' =
         IF \E v \in DOMAIN workers : v # w /\ workers[v].st = "add"
         THEN progCurrent ELSE progCurrent + 1
    /\ obtained' = obtained \cup {progCurrent + 1}
    /\ workers' = [workers EXCEPT ![w].st = "lock"]
    /\ UNCHANGED <<domains, concurrency, verbose, pc, idx, results, stats,
                   envOf, jobs, attempts, sleeps, mu, printed, written,
                   storeVars, lookupVars, runVars, spinnerVars>>

\* current := atomic.AddInt64(&p.current, 1)
IncrementAndPrintAdd(w) ==
    /\ PoolRunning
    /\ workers[w].st = "add"
    /\ progCurrent' = progCurrent + 1
    /\ obtained' = obtained \cup {progCurrent + 1}
    /\ workers' = [workers EXCEPT ![w].st = "lock"]
    /\ UNCHANGED <<domains, concurrency, verbose, pc, idx, results, stats,
                   envOf, jobs, attempts, sleeps, mu, printed, written,
                   storeVars, lookupVars, runVars, spinnerVars>>

\* A lock that is taken without waiting for its holder.
IncrementAndPrintLockNoWait(w) ==
    /\ PoolRunning
    /\ workers[w].st = "lock"
    /\ mu' = w
    /\ workers' = [workers EXCEPT ![w].st = "print"]
    /\ UNCHANGED <<domains, concurrency, verbose, pc, idx, results,
                   progCurrent, stats, envOf, jobs, attempts, sleeps,
                   obtained, printed, written, storeVars, lookupVars, runVars,
                   spinnerVars>>

\* p.mu.Lock()
IncrementAndPrintLock(w) ==
    /\ PoolRunning
    /\ workers[w].st = "lock"
    /\ mu = 0
    /\ mu' = w
    /\ workers' = [workers EXCEPT ![w].st = "print"]
    /\ UNCHANGED <<domains, concurrency, verbose, pc, idx, results,
                   progCurrent, stats, envOf, jobs, attempts, sleeps,
                   obtained, printed, written, storeVars, lookupVars, runVars,
                   spinnerVars>>

\* fmt.Printf of the progress line, then p.mu.Unlock()
IncrementAndPrintUnlock(w) ==
    /\ PoolRunning
    /\ workers[w].st = "print"
    /\ printed' = [printed EXCEPT ![workers[w].job] = @ + 1]
    /\ mu' = 0
    /\ workers' = [workers EXCEPT ![w].st = "record"]
    /\ UNCHANGED <<domains, concurrency, verbose, pc, idx, results,
                   progCurrent, stats, envOf, jobs, attempts, sleeps,
                   obtained, written, storeVars, lookupVars, runVars,
                   spinnerVars>>

\* stats.Record and the write of the result into its input position
WorkerStore(w) ==
    /\ PoolRunning
    /\ workers[w].st = "record"
    /\ LET i == workers[w].job
           r == workers[w].res IN
         /\ stats' = Record(stats, r.Avail, r.Reason)
         /\ results' = [results EXCEPT ![i] = r]
         /\ written' = [written EXCEPT ![i] = @ + 1]
    /\ workers' = [workers EXCEPT ![w] = IdleWorker]
    /\ UNCHANGED <<domains, concurrency, verbose, pc, idx, progCurrent, envOf,
                   jobs, attempts, sleeps, obtained, mu, printed, storeVars,
                   lookupVars, runVars, spinnerVars>>

\* A worker that ends as soon as it is idle, whatever is left in the queue.
WorkerExitEarly(w) ==
    /\ PoolRunning
    /\ workers[w].st = "idle"
    /\ workers' = [workers EXCEPT ![w] = Worker("done", 0, ZeroResult)]
    /\ UNCHANGED <<domains, concurrency, verbose, pc, idx, results,
                   progCurrent, stats, envOf, jobs, attempts, sleeps,
                   obtained, mu, printed, written, storeVars, lookupVars,
                   runVars, spinnerVars>>

\* an idle worker finds the queue closed and empty, and ends
WorkerExit(w) ==
    /\ PoolRunning
    /\ workers[w].st = "idle"
    /\ jobs = <<>>
    /\ workers' = [workers EXCEPT ![w] = Worker("done", 0, ZeroResult)]
    /\ UNCHANGED <<domains, concurrency, verbose, pc, idx, results,
                   progCurrent, stats, envOf, jobs, attempts, sleeps,
                   obtained, mu, printed, written, storeVars, lookupVars,
                   runVars, spinnerVars>>

\* A return as soon as the queue is empty, without the wait for the workers.
ParJoinNoWait ==
    /\ pc = "par"
    /\ jobs = <<>>
    /\ pc' = "returned"
    /\ UNCHANGED <<domains, concurrency, verbose, idx, results, progCurrent,
                   stats, envOf, jobs, workers, attempts, sleeps, obtained,
                   mu, printed, written, storeVars, lookupVars, runVars,
                   spinnerVars>>

\* the wait for every worker, then the return
ParJoin ==
    /\ pc = "par"
    /\ \A w \in DOMAIN workers : workers[w].st = "done"
    /\ pc' = "returned"
    /\ UNCHANGED <<domains, concurrency, verbose, idx, results, progCurrent,
                   stats, envOf, jobs, workers, attempts, sleeps, obtained,
                   mu, printed, written, storeVars, lookupVars, runVars,
                   spinnerVars>>

\* The output path of a run that has one; it names another file than the
\* input path.
OutputPath == "out.json"

\* No run of RunCLIDomainArray is looked at: the mode is grouped output to
\* an output file and the input file plays no part.
RunIdle ==
    /\ groupedOutput = TRUE
    /\ outputFile = OutputPath
    /\ inputFile = ArrayFile(<<>>)

\* No spinner was made.
SpinnerIdle ==
    /\ caller = "idle"
    /\ spc = "none"
    /\ stopCh = "open"
    /\ doneCh = "open"
    /\ frameNo = 0
    /\ shown = 0
    /\ line = "blank"

StoreIdle ==
    /\ dest = AbsentFile
    /\ tmpFile = AbsentFile
    /\ wpc = "idle"
    /\ newest = EmptyGrouped
    /\ existing = EmptyGrouped
    /\ out = AbsentFile
    /\ werr = ErrNil
    /\ destAtStart = AbsentFile
    /\ prevBatch = {}
    /\ repeat = FALSE
    /\ latest = NoLatest({})
    /\ ginput = {}

LookupIdle ==
    /\ lenv = EnvDialFail
    /\ lpc = "idle"
    /\ conn = "none"
    /\ lret = "none"
    /\ lclass = "none"
    /\ lcheck = "none"
    /\ ltrace = <<>>

\* The state at the call of checkDomains.
BatchStart ==
    /\ pc = "start"
    /\ idx = 0
    /\ results = <<>>
    /\ progCurrent = 0
    /\ stats = [available |-> 0, taken |-> 0, errors |-> 0]
    /\ envOf = [i \in 1..Len(domains) |-> NoEnv]
    /\ jobs = <<>>
    /\ workers = <<>>
    /\ attempts = [i \in 1..Len(domains) |-> 0]
    /\ sleeps = 0
    /\ obtained = {}
    /\ mu = 0
    /\ printed = [i \in 1..Len(domains) |-> 0]
    /\ written = [i \in 1..Len(domains) |-> 0]

\* The inputs of a sequential batch.
SequentialInputs ==
    /\ domains \in LenBounded(Domains, MaxDomains)
    /\ concurrency = 0
    /\ verbose \in BOOLEAN

\* The inputs of a batch checked by a pool.
PoolInputs ==
    /\ domains \in {DomainList(k) : k \in 0..MaxJobs}
    /\ concurrency \in {Unbounded} \cup 1..MaxWorkers
    /\ verbose = FALSE

ScenarioInputs ==
    /\ domains = ScenarioDomains
    /\ concurrency = ScenarioConcurrency
    /\ verbose = FALSE

InitBatch ==
    /\ RunIdle
    /\ SpinnerIdle
    /\ SequentialInputs \/ PoolInputs \/ ScenarioInputs
    /\ BatchStart
    /\ StoreIdle
    /\ LookupIdle

NextBatch ==
    \/ SeqStart
    \/ SeqLookupStart
    \/ SeqLookupFinish
    \/ SeqSleep
    \/ SeqReturn
    \/ ParStart
    \/ \E w \in DOMAIN workers : WorkerTake(w)
    \/ \E w \in DOMAIN workers : WorkerFinish(w)
    \/ \E w \in DOMAIN workers : IncrementAndPrintAdd(w)
    \/ \E w \in DOMAIN workers : IncrementAndPrintLock(w)
    \/ \E w \in DOMAIN workers : IncrementAndPrintUnlock(w)
    \/ \E w \in DOMAIN workers : WorkerStore(w)
    \/ \E w \in DOMAIN workers : WorkerExit(w)
    \/ ParJoin

SpecBatch == InitBatch /\ [][NextBatch]_vars

InitBatchFair ==
    /\ RunIdle
    /\ SpinnerIdle
    /\ SequentialInputs \/ PoolInputs
    /\ BatchStart
    /\ StoreIdle
    /\ LookupIdle

\* Every lookup terminates and the scheduler runs every goroutine that can
\* take a step.
SpecBatchFair ==
    InitBatchFair /\ [][NextBatch]_vars /\ WF_vars(NextBatch)

(***************************************************************************)
(* whois.go: one Lookup step by step, followed by the construction of the  *)
(* check result.  The batch variables domains and verbose give the domain  *)
(* looked up and the --verbose flag.                                       *)
(***************************************************************************)
\* A dial that is tried a second time when the first attempt fails.
LookupDialRetry ==
    /\ lpc = "dial"
    /\ ltrace' = Append(ltrace, "dial")
    /\ IF lenv.dial
       THEN /\ conn' = "open"
            /\ lpc' = "write"
            /\ UNCHANGED lret
       ELSE IF ltrace = <<>>
       THEN UNCHANGED <<conn, lpc, lret>>
       ELSE /\ lret' = LookupResult(<<>>, "failed to connect to WHOIS")
            /\ lpc' = "returned"
            /\ UNCHANGED conn
    /\ UNCHANGED <<lenv, lclass, lcheck, batchVars, storeVars, runVars,
                   spinnerVars>>

\* d.Dial("tcp", nwc.Server)
LookupDial ==
    /\ lpc = "dial"
    /\ ltrace' = Append(ltrace, "dial")
    /\ IF lenv.dial
       THEN /\ conn' = "open"
            /\ lpc' = "write"
            /\ UNCHANGED lret
       ELSE /\ lret' = LookupResult(<<>>, "failed to connect to WHOIS")
            /\ lpc' = "returned"
            /\ UNCHANGED conn
    /\ UNCHANGED <<lenv, lclass, lcheck, batchVars, storeVars, runVars,
                   spinnerVars>>

\* A write whose failure returns the error and leaves the connection open.
LookupWriteLeak ==
    /\ lpc = "write"
    /\ IF lenv.write
       THEN /\ lpc' = "closeWrite"
            /\ ltrace' = Append(ltrace, "write")
            /\ UNCHANGED <<conn, lret>>
       ELSE /\ conn' = conn
            /\ ltrace' = Append(ltrace, "write")
            /\ lret' = LookupResult(<<>>, "write error")
            /\ lpc' = "returned"
    /\ UNCHANGED <<lenv, lclass, lcheck, batchVars, storeVars, runVars,
                   spinnerVars>>

\* fmt.Fprintf(conn, "%s\r\n", domain); on failure conn.Close(), the return
\* of the error and the deferred conn.Close()
LookupWrite ==
    /\ lpc = "write"
    /\ IF lenv.write
       THEN /\ lpc' = "closeWrite"
            /\ ltrace' = Append(ltrace, "write")
            /\ UNCHANGED <<conn, lret>>
       ELSE /\ conn' = "closed"
            /\ ltrace' = ltrace \o <<"write", "close", "close">>
            /\ lret' = LookupResult(<<>>, "write error")
            /\ lpc' = "returned"
    /\ UNCHANGED <<lenv, lclass, lcheck, batchVars, storeVars, runVars,
                   spinnerVars>>

\* tcp.CloseWrite(): a failure is logged, the call goes on
LookupCloseWrite ==
    /\ lpc = "closeWrite"
    /\ conn' = IF lenv.closeWrite THEN "halfclosed" ELSE conn
    /\ ltrace' = Append(ltrace, "closeWrite")
    /\ lpc' = "read"
    /\ UNCHANGED <<lenv, lret, lclass, lcheck, batchVars, storeVars, runVars,
                   spinnerVars>>

\* io.ReadAll(conn), the checks after it, and the deferred conn.Close()
LookupRead ==
    /\ lpc = "read"
    /\ lret' = ReadResult(lenv.data, lenv.readErr)
    /\ conn' = "closed"
    /\ ltrace' = ltrace \o <<"read", "close">>
    /\ lpc' = "returned"
    /\ UNCHANGED <<lenv, lclass, lcheck, batchVars, storeVars, runVars,
                   spinnerVars>>

\* CheckDomainAvailabilityWithClient and the caller's result
LookupCheck ==
    /\ lpc = "returned"
    /\ lclass' = CheckDomainAvailabilityWithClient(lret)
    /\ lcheck' = checkResultOf(domains[1], lret, verbose)
    /\ lpc' = "checked"
    /\ UNCHANGED <<lenv, conn, lret, ltrace, batchVars, storeVars, runVars,
                   spinnerVars>>

BatchIdle ==
    /\ pc = "idle"
    /\ idx = 0
    /\ results = <<>>
    /\ progCurrent = 0
    /\ stats = [available |-> 0, taken |-> 0, errors |-> 0]
    /\ envOf = <<>>
    /\ jobs = <<>>
    /\ workers = <<>>
    /\ concurrency = 0
    /\ attempts = <<>>
    /\ sleeps = 0
    /\ obtained = {}
    /\ mu = 0
    /\ printed = <<>>
    /\ written = <<>>

InitLookup ==
    /\ RunIdle
    /\ SpinnerIdle
    /\ domains \in {<<d>> : d \in Domains}
    /\ verbose \in BOOLEAN
    /\ BatchIdle
    /\ StoreIdle
    /\ lenv \in LookupEnvs
    /\ lpc = "dial"
    /\ conn = "none"
    /\ lret = "none"
    /\ lclass = "none"
    /\ lcheck = "none"
    /\ ltrace = <<>>

NextLookup ==
    \/ LookupDial
    \/ LookupWrite
    \/ LookupCloseWrite
    \/ LookupRead
    \/ LookupCheck

SpecLookup == InitLookup /\ [][NextLookup]_vars

(***************************************************************************)
(* grouped.go: WriteGroupedFile, step by step.  The destination is         *)
(* a regular file in a directory the process may or may not write.         *)
(***************************************************************************)
NoCall == wpc = "idle"


\* The batches RunCLIDomainArray builds in grouped mode: the results of a
\* checked domain list, each appended to the bucket its check gives.
CheckedBatches ==
    [v \in BOOLEAN |->
        {AppendResults(EmptyGrouped, checkDomains(ds, envs, v)) :
            <<ds, envs>> \in
                UNION {[1..k -> Domains] \X [1..k -> StoreEnvs] :
                         k \in 0..MaxBatch}}]

\* return err (nil on success)
Return(err) ==
    /\ wpc' = "returned"
    /\ werr' = err
    /\ prevBatch' = IF err = ErrNil THEN {newest} ELSE {}
    /\ latest' = IF err = ErrNil THEN RecordBatch(latest, newest) ELSE latest

\* RunCLIDomainArray in grouped mode with an output file: the domain list is
\* checked, the results are put into buckets and WriteGroupedFile is called.
WGFCall ==
    /\ NoCall
    /\ \E groupedData \in CheckedBatches[verbose] :
         /\ newest' = groupedData
         /\ repeat' = (groupedData \in prevBatch)
    /\ destAtStart' = dest
    /\ ginput' = {}
    /\ existing' = EmptyGrouped
    /\ out' = AbsentFile
    /\ werr' = ErrNil
    /\ wpc' = "read"
    /\ UNCHANGED <<dest, tmpFile, prevBatch, latest, batchVars, lookupVars,
                   runVars, spinnerVars>>

\* A read that takes a missing or empty destination for a failure.
WGFReadStrict ==
    /\ wpc = "read"
    /\ \/ /\ dest.shape \in {"absent", "empty"}
          /\ existing' = EmptyGrouped
          /\ Return("read grouped file")
       \/ /\ dest.shape \notin {"absent", "empty"}
          /\ existing' = EmptyGrouped
          /\ Return("read grouped file")
       \/ /\ dest.shape \notin {"absent", "empty"}
          /\ IsObject(dest)
          /\ existing' = UnmarshalGrouped(dest)
          /\ wpc' = "merge"
          /\ UNCHANGED <<werr, prevBatch, latest>>
       \/ /\ dest.shape \notin {"absent", "empty"}
          /\ ~IsObject(dest)
          /\ IsArray(dest)
          /\ existing' = ConvertArrayToGrouped(dest.array)
          /\ wpc' = "merge"
          /\ UNCHANGED <<werr, prevBatch, latest>>
       \/ /\ dest.shape \notin {"absent", "empty"}
          /\ ~IsObject(dest)
          /\ ~IsArray(dest)
          /\ existing' = EmptyGrouped
          /\ Return("parse grouped file")
    /\ UNCHANGED <<dest, tmpFile, newest, out, destAtStart, ginput, repeat,
                   batchVars, lookupVars, runVars, spinnerVars>>

\* A read that takes content of no known shape for an empty store.
WGFReadLenient ==
    /\ wpc = "read"
    /\ \/ /\ dest.shape \in {"absent", "empty"}
          /\ existing' = EmptyGrouped
          /\ wpc' = "merge"
          /\ UNCHANGED <<werr, prevBatch, latest>>
       \/ /\ dest.shape \notin {"absent", "empty"}
          /\ existing' = EmptyGrouped
          /\ Return("read grouped file")
       \/ /\ dest.shape \notin {"absent", "empty"}
          /\ IsObject(dest)
          /\ existing' = UnmarshalGrouped(dest)
          /\ wpc' = "merge"
          /\ UNCHANGED <<werr, prevBatch, latest>>
       \/ /\ dest.shape \notin {"absent", "empty"}
          /\ ~IsObject(dest)
          /\ IsArray(dest)
          /\ existing' = ConvertArrayToGrouped(dest.array)
          /\ wpc' = "merge"
          /\ UNCHANGED <<werr, prevBatch, latest>>
       \/ /\ dest.shape \notin {"absent", "empty"}
          /\ ~IsObject(dest)
          /\ ~IsArray(dest)
          /\ existing' = EmptyGrouped
          /\ wpc' = "merge"
          /\ UNCHANGED <<werr, prevBatch, latest>>
    /\ UNCHANGED <<dest, tmpFile, newest, out, destAtStart, ginput, repeat,
                   batchVars, lookupVars, runVars, spinnerVars>>

\* os.Stat, os.ReadFile and the parse of the existing content.  os.Stat
\* fails exactly when there is no file: a directory that cannot be searched
\* makes os.CreateTemp fail as well.
WGFRead ==
    /\ wpc = "read"
    /\ \/ /\ dest.shape \in {"absent", "empty"}
          /\ existing' = EmptyGrouped
          /\ wpc' = "merge"
          /\ UNCHANGED <<werr, prevBatch, latest>>
       \/ /\ dest.shape \notin {"absent", "empty"}
          /\ existing' = EmptyGrouped
          /\ Return("read grouped file")
       \/ /\ dest.shape \notin {"absent", "empty"}
          /\ IsObject(dest)
          /\ existing' = UnmarshalGrouped(dest)
          /\ wpc' = "merge"
          /\ UNCHANGED <<werr, prevBatch, latest>>
       \/ /\ dest.shape \notin {"absent", "empty"}
          /\ ~IsObject(dest)
          /\ IsArray(dest)
          /\ existing' = ConvertArrayToGrouped(dest.array)
          /\ wpc' = "merge"
          /\ UNCHANGED <<werr, prevBatch, latest>>
       \/ /\ dest.shape \notin {"absent", "empty"}
          /\ ~IsObject(dest)
          /\ ~IsArray(dest)
          /\ existing' = EmptyGrouped
          /\ Return("parse grouped file")
    /\ UNCHANGED <<dest, tmpFile, newest, out, destAtStart, ginput, repeat,
                   batchVars, lookupVars, runVars, spinnerVars>>

\* merged := mergeGrouped(existing, newest); json.MarshalIndent(merged)
WGFMerge ==
    /\ wpc = "merge"
    /\ out' = MarshalGrouped(mergeGrouped(existing, newest))
    /\ wpc' = "createTemp"
    /\ UNCHANGED <<dest, tmpFile, newest, existing, werr, destAtStart, ginput,
                   prevBatch, latest, repeat, batchVars, lookupVars, runVars,
                   spinnerVars>>

\* os.CreateTemp(dir, "."+base+".*.tmp")
WGFCreateTemp ==
    /\ wpc = "createTemp"
    /\ \/ /\ tmpFile' = EmptyFile
          /\ wpc' = "write"
          /\ UNCHANGED <<werr, prevBatch, latest>>
       \/ /\ Return("create temp file")
          /\ UNCHANGED tmpFile
    /\ UNCHANGED <<dest, newest, existing, out, destAtStart, ginput, repeat,
                   batchVars, lookupVars, runVars, spinnerVars>>

\* The write step as a direct write of the destination (os.WriteFile).
WGFWriteDirect ==
    /\ wpc = "write"
    /\ \/ /\ dest' = out
          /\ wpc' = "close"
          /\ UNCHANGED <<werr, prevBatch, latest>>
       \/ /\ dest' \in {EmptyFile, PartialFile}
          /\ werr' = "write temp file"
          /\ wpc' = "cleanup"
          /\ UNCHANGED <<prevBatch, latest>>
    /\ UNCHANGED <<tmpFile, newest, existing, out, destAtStart, ginput,
                   repeat, batchVars, lookupVars, runVars, spinnerVars>>

\* The write step going on to close and rename after a failed write.
WGFWriteNoReturn ==
    /\ wpc = "write"
    /\ \/ /\ tmpFile' = out
          /\ UNCHANGED werr
       \/ /\ tmpFile' \in {EmptyFile, PartialFile}
          /\ werr' = "write temp file"
    /\ wpc' = "close"
    /\ UNCHANGED <<dest, newest, existing, out, destAtStart, ginput,
                   prevBatch, latest, repeat, batchVars, lookupVars, runVars,
                   spinnerVars>>

\* tmp.Write(out): all bytes are written, or the write fails and leaves
\* none or some of them in the temporary file
WGFWrite ==
    /\ wpc = "write"
    /\ \/ /\ tmpFile' = out
          /\ wpc' = "close"
          /\ UNCHANGED <<werr, prevBatch, latest>>
       \/ /\ tmpFile' \in {EmptyFile, PartialFile}
          /\ werr' = "write temp file"
          /\ wpc' = "cleanup"
          /\ UNCHANGED <<prevBatch, latest>>
    /\ UNCHANGED <<dest, newest, existing, out, destAtStart, ginput, repeat,
                   batchVars, lookupVars, runVars, spinnerVars>>

\* The close step returning its error without removing the temporary file.
WGFCloseNoRemove ==
    /\ wpc = "close"
    /\ \/ /\ wpc' = "rename"
          /\ UNCHANGED <<werr, prevBatch, latest>>
       \/ Return("close temp file")
    /\ UNCHANGED <<dest, tmpFile, newest, existing, out, destAtStart, ginput,
                   repeat, batchVars, lookupVars, runVars, spinnerVars>>

\* tmp.Close()
WGFClose ==
    /\ wpc = "close"
    /\ \/ /\ wpc' = "rename"
          /\ UNCHANGED werr
       \/ /\ werr' = "close temp file"
          /\ wpc' = "cleanup"
    /\ UNCHANGED <<dest, tmpFile, newest, existing, out, destAtStart, ginput,
                   prevBatch, latest, repeat, batchVars, lookupVars, runVars,
                   spinnerVars>>

\* The rename step done as "remove the destination, then rename": a failing
\* rename leaves no destination.
WGFRenameRemoveFirst ==
    /\ wpc = "rename"
    /\ \/ /\ dest' = tmpFile
          /\ tmpFile' = AbsentFile
          /\ Return(ErrNil)
       \/ /\ dest' = AbsentFile
          /\ werr' = "write grouped file"
          /\ wpc' = "cleanup"
          /\ UNCHANGED <<tmpFile, prevBatch, latest>>
    /\ UNCHANGED <<newest, existing, out, destAtStart, ginput, repeat,
                   batchVars, lookupVars, runVars, spinnerVars>>

\* os.Rename(tmpName, path)
WGFRename ==
    /\ wpc = "rename"
    /\ \/ /\ dest' = tmpFile
          /\ tmpFile' = AbsentFile
          /\ Return(ErrNil)
       \/ /\ werr' = "write grouped file"
          /\ wpc' = "cleanup"
          /\ UNCHANGED <<dest, tmpFile, prevBatch, latest>>
    /\ UNCHANGED <<newest, existing, out, destAtStart, ginput, repeat,
                   batchVars, lookupVars, runVars, spinnerVars>>

\* _ = os.Remove(tmpName), then the return of the error.  The removal of
\* the file the call has just created succeeds.
WGFCleanup ==
    /\ wpc = "cleanup"
    /\ tmpFile' = AbsentFile
    /\ Return(werr)
    /\ UNCHANGED <<dest, newest, existing, out, destAtStart, ginput, repeat,
                   batchVars, lookupVars, runVars, spinnerVars>>

\* RunCLIDomainArray reports the outcome of the call and returns; the run of
\* the tool ends.
WGFExit ==
    /\ wpc = "returned"
    /\ wpc' = "idle"
    /\ newest' = EmptyGrouped
    /\ existing' = EmptyGrouped
    /\ out' = AbsentFile
    /\ werr' = ErrNil
    /\ destAtStart' = dest
    /\ ginput' = {}
    /\ repeat' = FALSE
    /\ UNCHANGED <<dest, tmpFile, prevBatch, latest, batchVars, lookupVars,
                   runVars, spinnerVars>>

(***************************************************************************)
(* The other writers of the store file.                                    *)
(***************************************************************************)
\* A run of the tool that does not call WriteGroupedFile: nothing is left of
\* an earlier call.
NewRun ==
    /\ wpc' = "idle"
    /\ newest' = EmptyGrouped
    /\ existing' = EmptyGrouped
    /\ out' = AbsentFile
    /\ werr' = ErrNil
    /\ destAtStart' = dest'
    /\ prevBatch' = {}
    /\ latest' = NoLatest(DOMAIN latest)
    /\ repeat' = FALSE

StoreSize(f) == Len(f.available) + Len(f.unavailable) + Len(f.unverified)

RECURSIVE AppendUnseen(_, _)
AppendUnseen(merged, pruned) ==
    IF pruned = <<>> THEN merged
    ELSE LET r == Head(pruned)
             seen == {merged[i].domain : i \in 1..Len(merged)}
         IN AppendUnseen(IF r.domain \in seen THEN merged
                         ELSE Append(merged, r), Tail(pruned))

\* suggestions.go: the content writeSuggestionsFile gives the file
SuggestionsFile(f, list) ==
    LET pruned == [i \in 1..Len(list) |->
                     DomainRecord(list[i], FALSE, "", <<>>)]
    IN IF IsObject(f)
       THEN MarshalExtended(f.available, f.unavailable,
                            AppendUnseen(f.unverified, pruned))
       ELSE MarshalExtended(<<>>, <<>>, pruned)

\* writeSuggestionsFile on the store file: suggested domains are added to
\* its unverified list (the file is replaced by a rename).
Suggest ==
    /\ NoCall
    /\ \E list \in LenBounded(Domains, MaxUnverified) \ {<<>>} :
         /\ StoreSize(SuggestionsFile(dest, list)) <= MaxStore
         /\ dest' = SuggestionsFile(dest, list)
    /\ ginput' = {}
    /\ NewRun
    /\ UNCHANGED <<tmpFile, batchVars, lookupVars, runVars, spinnerVars>>

\* Buckets that hold the results of the checks and nothing else.
GroupedInputBucketsFresh(f, envs, v) ==
    LET domainNames == [i \in 1..Len(f.unverified) |-> f.unverified[i].domain]
    IN AppendResults(EmptyGrouped, checkDomains(domainNames, envs, v))

\* A run of RunCLIGroupedInput: the file it read, the network behaviour of
\* each lookup and its exit code.
GroupedRun(before, envs, code) ==
    [before |-> before, envs |-> envs, code |-> code]

\* The buckets RunCLIGroupedInput builds: every result is appended to the
\* bucket its check gives.
GroupedInputBuckets(f, envs, v) ==
    LET domainNames == [i \in 1..Len(f.unverified) |-> f.unverified[i].domain]
    IN AppendResults(GroupedData(f.available, f.unavailable),
                     checkDomains(domainNames, envs, v))

\* RunCLIGroupedInput on the store file, overwriting it (os.WriteFile): the
\* write succeeds, or fails before or after the file was truncated.
RunCLIGroupedInput ==
    /\ NoCall
    /\ IsObject(dest)
    /\ \E envs \in [1..Len(dest.unverified) -> StoreEnvs] :
         LET ext == GroupedInputBuckets(dest, envs, verbose)
         IN \/ /\ dest' = MarshalExtended(ext.available, ext.unavailable,
                                          <<>>)
               /\ ginput' = {GroupedRun(dest, envs, 0)}
            \/ /\ dest' = dest
               /\ ginput' = {GroupedRun(dest, envs, 1)}
            \/ /\ dest' \in {EmptyFile, PartialFile}
               /\ ginput' = {GroupedRun(dest, envs, 1)}
    /\ NewRun
    /\ UNCHANGED <<tmpFile, batchVars, lookupVars, runVars, spinnerVars>>

\* The flat records the tool writes for a checked domain list.
LegacyRecords ==
    {DomainRecord(r.Domain, r.Avail, r.Reason, r.Log) :
        r \in {checkResult(d, env, FALSE) : d \in Domains, env \in StoreEnvs}}

\* The store file when the tool starts and no call is running.
StoreStart ==
    /\ RunIdle
    /\ SpinnerIdle
    /\ domains = <<>>
    /\ verbose = FALSE
    /\ BatchIdle
    /\ LookupIdle
    /\ dest \in {AbsentFile, EmptyFile, CorruptFile, ForeignFile}
                  \cup {ArrayFile(arr) : arr \in LenBounded(LegacyRecords, MaxLegacy)}
    /\ tmpFile = AbsentFile
    /\ wpc = "idle"
    /\ newest = EmptyGrouped
    /\ existing = EmptyGrouped
    /\ out = AbsentFile
    /\ werr = ErrNil
    /\ destAtStart = dest
    /\ prevBatch = {}
    /\ repeat = FALSE
    /\ ginput = {}

InitStore ==
    /\ StoreStart
    /\ latest = NoLatest({})

NextStore ==
    \/ WGFCall
    \/ WGFRead
    \/ WGFMerge
    \/ WGFCreateTemp
    \/ WGFWrite
    \/ WGFClose
    \/ WGFRename
    \/ WGFCleanup
    \/ WGFExit
    \/ Suggest
    \/ RunCLIGroupedInput

SpecStore == InitStore /\ [][NextStore]_vars

(***************************************************************************)
(* A sequence of WriteGroupedFile calls on one destination, with the       *)
(* history of every domain.                                                *)
(***************************************************************************)
InitSequence ==
    /\ StoreStart
    /\ latest = NoLatest(Domains)

NextSequence ==
    \/ WGFCall
    \/ WGFRead
    \/ WGFMerge
    \/ WGFCreateTemp
    \/ WGFWrite
    \/ WGFClose
    \/ WGFRename
    \/ WGFCleanup
    \/ WGFExit

SpecSequence == InitSequence /\ [][NextSequence]_vars

(***************************************************************************)
(* mergeGrouped as a function: the call is about to merge a batch into a   *)
(* store it has read from a grouped file, whose lists are in any order.    *)
(***************************************************************************)
\* The records a bucket of a grouped file holds.
StoreRecords(flag) ==
    {GroupedDomain(r.domain, r.reason, r.log) :
        r \in {rec \in LegacyRecords : rec.available = flag}}

\* The stores of at most MaxStore records.
MergeStores ==
    {GroupedData(av, un) :
        <<av, un>> \in
            {p \in LenBounded(StoreRecords(TRUE), MaxStore)
                     \X LenBounded(StoreRecords(FALSE), MaxStore) :
                Len(p[1]) + Len(p[2]) <= MaxStore}}

InitMerge ==
    /\ RunIdle
    /\ SpinnerIdle
    /\ domains = <<>>
    /\ verbose = FALSE
    /\ BatchIdle
    /\ LookupIdle
    /\ existing \in MergeStores
    /\ newest \in CheckedBatches[FALSE]
    /\ dest = MarshalGrouped(existing)
    /\ destAtStart = dest
    /\ tmpFile = AbsentFile
    /\ wpc = "merge"
    /\ out = AbsentFile
    /\ werr = ErrNil
    /\ prevBatch = {}
    /\ repeat = FALSE
    /\ latest = NoLatest({})
    /\ ginput = {}

NextMerge == WGFMerge

SpecMerge == InitMerge /\ [][NextMerge]_vars

(***************************************************************************)
(* cli.go: RunCLIDomainArray in grouped mode with an output file, the      *)
(* batch check followed by WriteGroupedFile.                               *)
(***************************************************************************)
\* The grouped branch taken without waiting for checkDomains to return.
RunCLIDomainArrayGroupedEarly ==
    /\ pc \notin {"start", "persist"}
    /\ NoCall
    /\ groupedOutput
    /\ outputFile # ""
    /\ newest' = AppendResults(EmptyGrouped, results)
    /\ repeat' = FALSE
    /\ destAtStart' = dest
    /\ ginput' = {}
    /\ existing' = EmptyGrouped
    /\ out' = AbsentFile
    /\ werr' = ErrNil
    /\ wpc' = "read"
    /\ pc' = "persist"
    /\ UNCHANGED <<dest, tmpFile, prevBatch, latest, domains, concurrency,
                   verbose, idx, results, progCurrent, stats, envOf, jobs,
                   workers, attempts, sleeps, obtained, mu, printed, written,
                   lookupVars, runVars, spinnerVars>>

\* The grouped branch that writes the buckets to the input file as well.
RunCLIDomainArrayGroupedBoth ==
    /\ pc = "returned"
    /\ NoCall
    /\ groupedOutput
    /\ outputFile # ""
    /\ newest' = AppendResults(EmptyGrouped, results)
    /\ repeat' = FALSE
    /\ destAtStart' = dest
    /\ ginput' = {}
    /\ existing' = EmptyGrouped
    /\ out' = AbsentFile
    /\ werr' = ErrNil
    /\ wpc' = "read"
    /\ pc' = "persist"
    /\ inputFile' = MarshalGrouped(AppendResults(EmptyGrouped, results))
    /\ UNCHANGED <<dest, tmpFile, prevBatch, latest, domains, concurrency,
                   verbose, idx, results, progCurrent, stats, envOf, jobs,
                   workers, attempts, sleeps, obtained, mu, printed, written,
                   lookupVars, groupedOutput, outputFile,
                   spinnerVars>>

\* results := checkDomains(...) has returned; the results are put into the
\* buckets of groupedData and WriteGroupedFile(outputFile, groupedData) is
\* called
RunCLIDomainArrayGrouped ==
    /\ pc = "returned"
    /\ NoCall
    /\ groupedOutput
    /\ outputFile # ""
    /\ newest' = AppendResults(EmptyGrouped, results)
    /\ repeat' = FALSE
    /\ destAtStart' = dest
    /\ ginput' = {}
    /\ existing' = EmptyGrouped
    /\ out' = AbsentFile
    /\ werr' = ErrNil
    /\ wpc' = "read"
    /\ pc' = "persist"
    /\ UNCHANGED <<dest, tmpFile, prevBatch, latest, domains, concurrency,
                   verbose, idx, results, progCurrent, stats, envOf, jobs,
                   workers, attempts, sleeps, obtained, mu, printed, written,
                   lookupVars, runVars, spinnerVars>>

\* The input file as RunCLI read it: one record for each domain of the list.
InputArray(ds) ==
    ArrayFile([i \in 1..Len(ds) |-> DomainRecord(ds[i], FALSE, "", <<>>)])

\* for i, res := range results { domains[i].Available = res.Avail; ... }
UpdatedArray(rs) ==
    ArrayFile([i \in 1..Len(rs) |->
                 DomainRecord(rs[i].Domain, rs[i].Avail, rs[i].Reason,
                              rs[i].Log)])

\* checkDomains has returned and the run is in non-grouped mode, or in
\* grouped mode without an output file: the records, or the buckets, are
\* written over the input file (os.WriteFile: the write succeeds, or fails
\* before or after the file was truncated), and the run ends.
RunCLIDomainArrayOverwrite ==
    /\ pc = "returned"
    /\ NoCall
    /\ ~groupedOutput \/ outputFile = ""
    /\ LET content == IF groupedOutput
                       THEN MarshalGrouped(AppendResults(EmptyGrouped,
                                                         results))
                       ELSE UpdatedArray(results)
       IN inputFile' \in {content, inputFile, EmptyFile, PartialFile}
    /\ pc' = "persist"
    /\ UNCHANGED <<domains, concurrency, verbose, idx, results, progCurrent,
                   stats, envOf, jobs, workers, attempts, sleeps, obtained,
                   mu, printed, written, storeVars, lookupVars,
                   groupedOutput, outputFile, spinnerVars>>

\* What the output file holds when the tool starts.
ArrayDestinations ==
    {AbsentFile, EmptyFile, CorruptFile,
     ArrayFile(<<DomainRecord(1, TRUE, ReasonNoMatch, <<>>)>>),
     MarshalGrouped(GroupedData(<<>>, <<GroupedDomain(1, ReasonTaken, <<>>)>>))}

\* The modes of a run: grouped output to an output file, grouped output
\* without one, and non-grouped output; only the first has an output file,
\* which exists or not when the tool starts.
RunModes ==
    /\ \/ groupedOutput = TRUE /\ outputFile = OutputPath
             /\ dest \in ArrayDestinations
       \/ groupedOutput = TRUE /\ outputFile = "" /\ dest = AbsentFile
       \/ groupedOutput = FALSE /\ outputFile = "" /\ dest = AbsentFile
    /\ inputFile = InputArray(domains)

InitArray ==
    /\ domains \in {DomainList(k) : k \in 0..MaxJobs}
    /\ concurrency \in {0, Unbounded} \cup 1..MaxWorkers
    /\ verbose = FALSE
    /\ BatchStart
    /\ LookupIdle
    /\ SpinnerIdle
    /\ RunModes
    /\ tmpFile = AbsentFile
    /\ wpc = "idle"
    /\ newest = EmptyGrouped
    /\ existing = EmptyGrouped
    /\ out = AbsentFile
    /\ werr = ErrNil
    /\ destAtStart = dest
    /\ prevBatch = {}
    /\ repeat = FALSE
    /\ latest = NoLatest({})
    /\ ginput = {}

NextArray ==
    \/ NextBatch
    \/ RunCLIDomainArrayGrouped
    \/ RunCLIDomainArrayOverwrite
    \/ WGFRead
    \/ WGFMerge
    \/ WGFCreateTemp
    \/ WGFWrite
    \/ WGFClose
    \/ WGFRename
    \/ WGFCleanup
    \/ WGFExit

SpecArray == InitArray /\ [][NextArray]_vars

(***************************************************************************)
(* progress.go: the spinner.  One goroutine starts the spinner, does its   *)
(* work and stops it; the spinner goroutine writes frames until it sees    *)
(* the stop channel closed.                                                *)
(***************************************************************************)
\* len(spinnerFrames)
SpinnerFrames == 10

\* s.Start(): go func() { ... }()
SpinnerStart ==
    /\ caller = "new"
    /\ caller' = "working"
    /\ spc' = "select"
    /\ UNCHANGED <<stopCh, doneCh, frameNo, shown, line, batchVars, storeVars,
                   lookupVars, runVars>>

\* select: s.stop is not closed, the default case writes the next frame
\* and increments i
SpinnerFrame ==
    /\ spc = "select"
    /\ stopCh = "open"
    /\ frameNo < MaxFrames
    /\ shown' = frameNo % SpinnerFrames
    /\ line' = "frame"
    /\ frameNo' = frameNo + 1
    /\ spc' = "sleep"
    /\ UNCHANGED <<caller, stopCh, doneCh, batchVars, storeVars, lookupVars,
                   runVars>>

\* time.Sleep(80 * time.Millisecond) has ended
SpinnerWake ==
    /\ spc = "sleep"
    /\ spc' = "select"
    /\ UNCHANGED <<caller, stopCh, doneCh, frameNo, shown, line, batchVars,
                   storeVars, lookupVars, runVars>>

\* select: case <-s.stop, which is ready once s.stop is closed
SpinnerSeeStop ==
    /\ spc = "select"
    /\ stopCh = "closed"
    /\ spc' = "clear"
    /\ UNCHANGED <<caller, stopCh, doneCh, frameNo, shown, line, batchVars,
                   storeVars, lookupVars, runVars>>

\* fmt.Fprintf(os.Stderr, "\r\033[K")
SpinnerClearLine ==
    /\ spc = "clear"
    /\ line' = "cleared"
    /\ spc' = "closeDone"
    /\ UNCHANGED <<caller, stopCh, doneCh, frameNo, shown, batchVars,
                   storeVars, lookupVars, runVars>>

\* close(s.done); return.  The return is the goroutine's last statement and
\* has no effect of its own, so the two are one step.
SpinnerCloseDone ==
    /\ spc = "closeDone"
    /\ doneCh' = "closed"
    /\ spc' = "exited"
    /\ UNCHANGED <<caller, stopCh, frameNo, shown, line, batchVars, storeVars,
                   lookupVars, runVars>>

\* s.Stop(): close(s.stop)
StopClose ==
    /\ caller = "working"
    /\ stopCh' = "closed"
    /\ caller' = "waiting"
    /\ UNCHANGED <<spc, doneCh, frameNo, shown, line, batchVars, storeVars,
                   lookupVars, runVars>>

\* A Stop that returns without the receive from s.done.
StopReceiveNoWait ==
    /\ caller = "waiting"
    /\ caller' = "returned"
    /\ UNCHANGED <<spc, stopCh, doneCh, frameNo, shown, line, batchVars,
                   storeVars, lookupVars, runVars>>

\* s.Stop(): <-s.done, then the return
StopReceive ==
    /\ caller = "waiting"
    /\ doneCh = "closed"
    /\ caller' = "returned"
    /\ UNCHANGED <<spc, stopCh, doneCh, frameNo, shown, line, batchVars,
                   storeVars, lookupVars, runVars>>

\* newSpinner(message): both channels are made and open
InitSpinner ==
    /\ domains = <<>>
    /\ verbose = FALSE
    /\ BatchIdle
    /\ StoreIdle
    /\ LookupIdle
    /\ RunIdle
    /\ caller = "new"
    /\ spc = "none"
    /\ stopCh = "open"
    /\ doneCh = "open"
    /\ frameNo = 0
    /\ shown = 0
    /\ line = "blank"

\* The steps of the spinner goroutine.
SpinnerStep ==
    \/ SpinnerFrame
    \/ SpinnerWake
    \/ SpinnerSeeStop
    \/ SpinnerClearLine
    \/ SpinnerCloseDone

NextSpinner ==
    \/ SpinnerStart
    \/ SpinnerStep
    \/ StopClose
    \/ StopReceive

\* The scheduler runs the spinner goroutine and the goroutine that waits in
\* Stop whenever they can take a step.
SpecSpinner ==
    /\ InitSpinner
    /\ [][NextSpinner]_vars
    /\ WF_vars(SpinnerStep)
    /\ WF_vars(StopReceive)

(***************************************************************************)
(* Properties of the batch check and of the lookup.                        *)
(***************************************************************************)

\* C1: when checkDomains has returned, in sequential mode and in parallel mode
\* with any worker count, the result list is as long as the input list and
\* results[i].Domain = domains[i] for every index i, whatever the order in
\* which the lookups completed.
C1_ResultOrder ==
    pc = "returned" =>
        /\ Len(results) = Len(domains)
        /\ \A i \in 1..Len(domains) : results[i].Domain = domains[i]

\* A sequential batch of three domains, not all the same, has returned with
\* outcomes that differ between positions.
C1_Witness ==
    /\ pc = "returned"
    /\ concurrency = 0
    /\ Len(domains) = MaxDomains
    /\ domains[1] # domains[2]
    /\ results[1].Reason # results[2].Reason

\* C10: once a lookup whose peer closed the connection having sent zero
\* bytes has been checked, Lookup has returned an error and the check result
\* is not available with reason ERROR, never NO_MATCH or TAKEN; this covers
\* the read ending with a clean end of stream.
C10_EmptyResponseIsError ==
    (lpc = "checked" /\ lenv.dial /\ lenv.data = RespEmpty) =>
        /\ lret.err # ErrNil
        /\ lret.resp = <<>>
        /\ lcheck.Reason = ReasonError
        /\ lcheck.Avail = FALSE

\* The peer read the query and closed without sending a byte; the read ended
\* with a clean end of stream, and the result is an ERROR.
C10_Witness ==
    /\ lpc = "checked"
    /\ lenv.dial /\ lenv.write
    /\ lenv.data = RespEmpty
    /\ lenv.readErr = ErrNil
    /\ lret.err = "empty WHOIS response"
    /\ lcheck.Reason = ReasonError

\* The lookups that have started and not yet returned.
InFlight == {i \in DOMAIN attempts : attempts[i] > 0 /\ envOf[i] = NoEnv}

\* C11: once CheckDomainAvailabilityWithClient has returned, a lookup that
\* gave a non-empty response without error is available with reason NO_MATCH
\* if the response contains "No match for" and not available with reason
\* TAKEN otherwise, both without error; a failed lookup is not available with
\* reason ERROR and the error of the lookup is returned.
C11_Classification ==
    lpc = "checked" =>
        /\ (lret.err = ErrNil /\ lret.resp # <<>>
              /\ \E i \in 1..Len(lret.resp) : lret.resp[i] = "No match for") =>
               /\ lclass.avail = TRUE
               /\ lclass.reason = ReasonNoMatch
               /\ lclass.err = ErrNil
        /\ (lret.err = ErrNil /\ lret.resp # <<>>
              /\ \A i \in 1..Len(lret.resp) : lret.resp[i] # "No match for") =>
               /\ lclass.avail = FALSE
               /\ lclass.reason = ReasonTaken
               /\ lclass.err = ErrNil
        /\ lret.err # ErrNil =>
               /\ lclass.avail = FALSE
               /\ lclass.reason = ReasonError
               /\ lclass.err = lret.err

\* A response that has "No match for" after other text was classified as
\* available.
C11_Witness ==
    /\ lpc = "checked"
    /\ lret.err = ErrNil
    /\ lret.resp = RespNoMatchInside
    /\ lclass.avail
    /\ lclass.reason = ReasonNoMatch

\* C12: no index is looked up twice, and when checkDomains has returned every
\* index of the input was looked up exactly once and has its result; the
\* result of a failed lookup has reason ERROR, and the failure did not end
\* the batch.
C12_FailureIsolation ==
    /\ \A i \in DOMAIN attempts : attempts[i] <= 1
    /\ pc = "returned" =>
        /\ Len(results) = Len(domains)
        /\ \A i \in 1..Len(domains) :
             /\ attempts[i] = 1
             /\ envOf[i] # NoEnv
             /\ results[i].Domain = domains[i]
             /\ Lookup(envOf[i]).err # ErrNil =>
                  results[i].Reason = ReasonError

\* A sequential batch whose first lookup could not connect went on and found
\* the second domain available.
C12_Witness ==
    /\ pc = "returned"
    /\ concurrency = 0
    /\ Len(domains) = MaxDomains
    /\ envOf[1] = EnvDialFail
    /\ results[1].Reason = ReasonError
    /\ results[2].Reason = ReasonNoMatch

\* C13: the check result of a failed lookup (connect, write, read or empty
\* response) has a non-empty log that holds the text of the error, with and
\* without verbose; the check result of a successful lookup has the response
\* as its log if verbose is set and an empty log otherwise.
C13_ErrorDetailKept ==
    lpc = "checked" =>
        /\ lret.err # ErrNil =>
               /\ lcheck.Log # <<>>
               /\ \E i \in 1..Len(lcheck.Log) : lcheck.Log[i] = lret.err
        /\ lret.err = ErrNil =>
               /\ (lcheck.Log # <<>>) <=> verbose
               /\ verbose => lcheck.Log = lret.resp
        /\ (lcheck.Log # <<>>) <=> (verbose \/ lcheck.Reason = ReasonError)

\* A read that timed out, checked without verbose: the log holds the error.
C13_Witness ==
    /\ lpc = "checked"
    /\ ~verbose
    /\ lret.err = "read error"
    /\ lcheck.Log = <<"Error:", "read error">>

\* C14: in sequential mode at most one lookup is in flight, and whenever a
\* lookup is in flight every lookup that returned before it, with or without
\* error, was followed by a sleep.
C14_SequentialRateLimit ==
    concurrency = 0 =>
        /\ Cardinality(InFlight) <= 1
        /\ pc = "lookup" =>
             /\ InFlight = {idx}
             /\ Len(results) = idx - 1
             /\ sleeps = idx - 1

\* The second lookup of a sequential batch is in flight after the first one
\* failed, and the loop has slept once.
C14_Witness ==
    /\ concurrency = 0
    /\ pc = "lookup"
    /\ idx = 2
    /\ results[1].Reason = ReasonError
    /\ sleeps = 1

\* min(N, d), or d for the unbounded sentinel.
PoolBound ==
    IF concurrency = Unbounded THEN Len(domains)
    ELSE IF concurrency < Len(domains) THEN concurrency ELSE Len(domains)

\* C15: in parallel mode the pool has exactly min(N, d) workers (d with the
\* unbounded sentinel) and never more lookups than that are in flight; five
\* domains with concurrency 2 return with two workers, five results in input
\* order and a progress counter of 5.
C15_WorkerBound ==
    concurrency # 0 =>
        /\ pc \in {"par", "returned"} => Len(workers) = PoolBound
        /\ Cardinality(InFlight) <= PoolBound
        /\ Cardinality({w \in DOMAIN workers : workers[w].st = "lookup"})
             = Cardinality(InFlight)
        /\ (pc = "returned" /\ domains = ScenarioDomains
              /\ concurrency = ScenarioConcurrency) =>
               /\ Len(workers) = ScenarioConcurrency
               /\ Len(results) = ScenarioSize
               /\ \A i \in 1..ScenarioSize : results[i].Domain = domains[i]
               /\ progCurrent = ScenarioSize

\* Five domains and concurrency 2: the fifth lookup is in flight together
\* with the fourth.
C15_Witness ==
    /\ domains = ScenarioDomains
    /\ concurrency = ScenarioConcurrency
    /\ Len(workers) = ScenarioConcurrency
    /\ InFlight = {ScenarioSize - 1, ScenarioSize}

\* C16: when the batch has returned the progress counter is n, the values the
\* n increments gave are 1..n, and each result is counted in exactly one of
\* available, taken and errors, a result with reason ERROR in errors.
C16_NoLostUpdates ==
    pc = "returned" =>
        LET n == Len(domains)
            errs == {i \in 1..n : results[i].Reason = ReasonError}
            avs == {i \in 1..n : results[i].Reason # ReasonError
                                   /\ results[i].Avail}
            tkn == {i \in 1..n : results[i].Reason # ReasonError
                                   /\ ~results[i].Avail}
        IN /\ progCurrent = n
           /\ obtained = 1..n
           /\ \A i \in 1..n : attempts[i] = 1
           /\ stats.errors = Cardinality(errs)
           /\ stats.available = Cardinality(avs)
           /\ stats.taken = Cardinality(tkn)
           /\ stats.available + stats.taken + stats.errors = n

\* Two workers have checked five domains and the call has returned: two
\* lookups failed, two domains are available and one is taken.
C16_Witness ==
    /\ pc = "returned"
    /\ domains = ScenarioDomains
    /\ Len(workers) = ScenarioConcurrency
    /\ progCurrent = ScenarioSize
    /\ stats = [available |-> 2, taken |-> 1, errors |-> 2]

\* C17: at most one worker is in the print section of IncrementAndPrint, and
\* it holds the mutex; no index gets a second line; when the batch has
\* returned the mutex is free and every index has got its one line.
C17_PrintSerialized ==
    /\ Cardinality({w \in DOMAIN workers : workers[w].st = "print"}) <= 1
    /\ \A w \in DOMAIN workers : workers[w].st = "print" => mu = w
    /\ mu # 0 => (mu \in DOMAIN workers /\ workers[mu].st = "print")
    /\ \A i \in DOMAIN printed : printed[i] <= 1
    /\ pc = "returned" =>
         /\ mu = 0
         /\ \A i \in 1..Len(domains) : printed[i] = 1

\* One worker prints while another waits for the mutex.
C17_Witness ==
    \E w, v \in DOMAIN workers :
        /\ workers[w].st = "print"
        /\ workers[v].st = "lock"
        /\ mu = w

\* C18: in every state in which checkDomains has returned every worker has
\* ended and no lookup is in flight, and no step taken after the return
\* changes the results, the progress counter or the statistics.
C18_JoinBarrier ==
    /\ [](pc = "returned" =>
            /\ \A w \in DOMAIN workers : workers[w].st = "done"
            /\ InFlight = {})
    /\ [][pc = "returned" =>
            UNCHANGED <<results, progCurrent, stats, printed>>]_vars

\* A pool with one worker per domain has returned, all its workers ended.
C18_Witness ==
    /\ pc = "returned"
    /\ concurrency = Unbounded
    /\ Len(workers) = MaxJobs
    /\ \A w \in DOMAIN workers : workers[w].st = "done"

\* C19: if every lookup terminates, checkDomains returns, in sequential and
\* in parallel mode, and it never returns before every index of the input
\* was looked up and has its result.
C19_BatchTerminates ==
    /\ <>(pc = "returned")
    /\ [](pc = "returned" =>
            /\ jobs = <<>>
            /\ \A i \in 1..Len(domains) :
                 attempts[i] > 0 /\ results[i] # ZeroResult)

\* A pool of one worker has gone through the whole list and returned.
C19_Witness ==
    /\ pc = "returned"
    /\ concurrency = 1
    /\ Len(domains) = MaxJobs
    /\ Len(results) = MaxJobs

\* C21: in parallel mode no two workers hold the same index at the same
\* time, no index of the result list is written twice, an index that was
\* written holds the result of its own domain, and when the call has
\* returned every index was written exactly once.
C21_DisjointOwnership ==
    concurrency # 0 =>
        /\ \A w, v \in DOMAIN workers :
             (w # v /\ workers[w].job # 0) =>
                 workers[w].job # workers[v].job
        /\ \A i \in DOMAIN written :
             /\ written[i] <= 1
             /\ written[i] = 1 => results[i].Domain = domains[i]
             /\ (written[i] = 0 /\ pc # "start") => results[i] = ZeroResult
        /\ pc = "returned" =>
             \A i \in 1..Len(domains) : written[i] = 1

\* Two workers are about to write their results, each into its own index.
C21_Witness ==
    /\ pc = "par"
    /\ Len(workers) > 1
    /\ workers[1].st = "record"
    /\ workers[2].st = "record"
    /\ workers[1].job # workers[2].job
    /\ written[workers[1].job] = 0

\* The operations of a lookup on the network without the closes.
ProtocolOps == SelectSeq(ltrace, LAMBDA op : op # "close")

\* C28: a read that fails with connection reset by peer, broken pipe or
\* connection closed makes Lookup return the error of a zero-byte response,
\* "empty WHOIS response", and no response; a read that fails in another way
\* makes it return a read error; the check result has reason ERROR in both.
C28_ReadErrorRemapping ==
    (lpc = "checked" /\ lenv.dial /\ lenv.write /\ lenv.readErr # ErrNil) =>
        /\ lret.resp = <<>>
        /\ lenv.readErr \in {ErrReset, ErrBrokenPipe, ErrClosed} =>
               lret.err = ReadResult(<<>>, ErrNil).err
        /\ lenv.readErr \in {ErrReset, ErrBrokenPipe, ErrClosed} =>
               lret.err = "empty WHOIS response"
        /\ lenv.readErr \notin {ErrReset, ErrBrokenPipe, ErrClosed} =>
               lret.err = "read error"
        /\ lcheck.Reason = ReasonError
        /\ lcheck.Avail = FALSE

\* The peer sent a response and then reset the connection: the lookup is
\* reported as an empty response.
C28_Witness ==
    /\ lpc = "checked"
    /\ lenv.dial /\ lenv.write
    /\ lenv.readErr = ErrReset
    /\ lenv.data = RespTaken
    /\ lret.err = "empty WHOIS response"
    /\ lcheck.Reason = ReasonError

\* C29: the operations of a Lookup call on the network are always a prefix
\* of dial, write, closeWrite, read; a call that has returned did only the
\* dial if the dial failed, the dial and the write if the write failed, and
\* all four otherwise.
C29_ProtocolOrder ==
    /\ lpc # "idle" =>
         \E n \in 0..4 :
             ProtocolOps = SubSeq(<<"dial", "write", "closeWrite", "read">>,
                                  1, n)
    /\ lpc \in {"returned", "checked"} =>
         ProtocolOps =
             IF ~lenv.dial THEN <<"dial">>
             ELSE IF ~lenv.write THEN <<"dial", "write">>
             ELSE <<"dial", "write", "closeWrite", "read">>

\* The write of the query failed: the call returned after the dial and the
\* write, without a read.
C29_Witness ==
    /\ lpc = "returned"
    /\ lenv.dial
    /\ ~lenv.write
    /\ ProtocolOps = <<"dial", "write">>
    /\ lret.err = "write error"

(***************************************************************************)
(* Properties of the grouped store.                                        *)
(***************************************************************************)
Keys(list) == {list[i].domain : i \in 1..Len(list)}

\* The last record of the list for domain d.
LastRec(list, d) ==
    list[CHOOSE i \in 1..Len(list) :
            /\ list[i].domain = d
            /\ \A j \in 1..Len(list) : list[j].domain = d => j <= i]

\* The list holds exactly one record for d, and it is rec.
HoldsOnly(list, d, rec) ==
    /\ Cardinality({i \in 1..Len(list) : list[i].domain = d}) = 1
    /\ \E i \in 1..Len(list) : list[i] = rec

\* The call has merged: out is the serialized merge of existing and newest.
Merged == out.shape = "object"

\* C2: for every existing store read from the destination and every newest
\* batch, no domain is in both the available and the unavailable bucket of
\* the merged output.
C2_MergedBucketsDisjoint ==
    Merged => Keys(out.available) \cap Keys(out.unavailable) = {}

\* C3: at every point in time, whatever operations of the tool have written
\* the bucketed store, no domain is in both the available and the unavailable
\* bucket of the store file.
C3_StoreBucketsDisjoint ==
    IsObject(dest) => Keys(dest.available) \cap Keys(dest.unavailable) = {}

\* C4: if a domain is in one bucket of the existing store and the newest
\* batch places it in the other bucket, the merged store holds the domain only
\* in the bucket the newest batch gives, with the (last) record of the newest
\* batch; after a successful call this merged store is the destination.
C4_Reclassification ==
    /\ Merged =>
         \A d \in Domains :
            /\ (d \in Keys(existing.available) /\ d \in Keys(newest.unavailable))
                 => /\ d \notin Keys(out.available)
                    /\ HoldsOnly(out.unavailable, d,
                                 LastRec(newest.unavailable, d))
            /\ (/\ d \in Keys(existing.unavailable)
                /\ d \in Keys(newest.available)
                /\ d \notin Keys(newest.unavailable))
                 => /\ d \notin Keys(out.unavailable)
                    /\ HoldsOnly(out.available, d, LastRec(newest.available, d))
    /\ (wpc = "returned" /\ werr = ErrNil) => dest = out

\* The scenario of TestMergeGrouped: existing {available: [a.com],
\* unavailable: [b.com]} merged with newest {available: [b.com]} has been
\* written as {available: [a.com, b.com], unavailable: []}.
C4_Witness ==
    /\ wpc = "returned"
    /\ werr = ErrNil
    /\ existing = GroupedData(<<GroupedDomain(1, ReasonNoMatch, <<>>)>>,
                              <<GroupedDomain(2, ReasonTaken, <<>>)>>)
    /\ newest = GroupedData(<<GroupedDomain(2, ReasonNoMatch, <<>>)>>, <<>>)
    /\ dest = ObjectFile(<<GroupedDomain(1, ReasonNoMatch, <<>>),
                           GroupedDomain(2, ReasonNoMatch, <<>>)>>, <<>>, <<>>)

\* C5: a successful WriteGroupedFile call that gets the same batch as the
\* successful call right before it leaves the destination file as that
\* earlier call left it.
C5_Idempotent ==
    (wpc = "returned" /\ werr = ErrNil /\ repeat) => dest = destAtStart

\* The same batch, with records for both buckets, has been applied twice in
\* a row to a store that held other records before.
C5_Witness ==
    /\ wpc = "returned"
    /\ werr = ErrNil
    /\ repeat
    /\ newest.available # <<>>
    /\ newest.unavailable # <<>>
    /\ Len(dest.available) + Len(dest.unavailable) > 1

\* C6: if the write of the serialized data to the temporary file fails, the
\* call only cleans up and returns that error, and the destination file
\* keeps the content it had before the call.
C6_WriteFailureKeepsDest ==
    werr = "write temp file" =>
        /\ wpc \in {"cleanup", "returned"}
        /\ dest = destAtStart

\* The write to the temporary file failed, the call has returned, and the
\* destination still holds a store that differs from the merged one.
C6_Witness ==
    /\ wpc = "returned"
    /\ werr = "write temp file"
    /\ IsObject(dest)
    /\ dest # out

\* C7: in every state of a WriteGroupedFile call the destination holds the
\* complete content it had before the call or, only once the rename has
\* succeeded, the complete serialized merge; partial data is only ever in the
\* temporary file.
C7_DestNeverPartial ==
    wpc # "idle" =>
        \/ dest = destAtStart
        \/ /\ wpc = "returned"
           /\ werr = ErrNil
           /\ dest = MarshalGrouped(mergeGrouped(existing, newest))

\* A write has failed part-way: the temporary file holds a truncated
\* serialization while the destination still holds the previous store.
C7_Witness ==
    /\ wpc = "cleanup"
    /\ tmpFile = PartialFile
    /\ IsObject(dest)
    /\ dest = destAtStart
    /\ dest # out

C9_NoPartialSuccess ==
    (wpc # "idle" /\ ~(wpc = "returned" /\ werr = ErrNil)) => dest = destAtStart

\* The rename failed; the call has returned the error and the destination
\* holds the previous store, not the merged one.
C9_Witness ==
    /\ wpc = "returned"
    /\ werr = "write grouped file"
    /\ IsObject(dest)
    /\ dest = destAtStart
    /\ dest # out

\* C20: while WriteGroupedFile runs, checkDomains has returned, no lookup
\* is in flight, every worker has ended and every index was looked up; the
\* destination and the temporary file change only in a step of that call.
C20_PersistAfterCheck ==
    /\ [](wpc # "idle" =>
            /\ pc = "persist"
            /\ InFlight = {}
            /\ \A w \in DOMAIN workers : workers[w].st = "done"
            /\ \A i \in 1..Len(domains) : attempts[i] = 1)
    /\ [][(dest' # dest \/ tmpFile' # tmpFile) =>
            (pc = "persist" /\ wpc \in {"createTemp", "write", "rename",
                                        "cleanup"})]_vars
    /\ [][wpc # "idle" =>
            UNCHANGED <<results, progCurrent, stats, workers>>]_vars

\* A pool of two workers has checked the list, and after it WriteGroupedFile
\* has replaced the output file.
C20_Witness ==
    /\ pc = "persist"
    /\ wpc = "returned"
    /\ werr = ErrNil
    /\ Len(workers) > 1
    /\ Len(results) = MaxJobs
    /\ dest = out
    /\ dest # destAtStart

(***************************************************************************)
(* Properties of WriteGroupedFile's read of the destination and of the     *)
(* merge.                                                                  *)
(***************************************************************************)
\* The running call has read the destination.
PastRead == wpc \notin {"idle", "read"}

\* The errors of the steps that create, write and move the temporary file.
TempFileErrors ==
    {"create temp file", "write temp file", "close temp file",
     "write grouped file"}

NewestKeys == Keys(newest.available) \cup Keys(newest.unavailable)

BucketOf(arr, flag) ==
    LET sel == SelectSeq(arr, LAMBDA rec : rec.available = flag)
    IN [i \in 1..Len(sel) |->
          GroupedDomain(sel[i].domain, sel[i].reason, sel[i].log)]

\* The call has read a legacy array from the destination.
LegacyRead ==
    /\ PastRead
    /\ IsArray(destAtStart)
    /\ ~IsObject(destAtStart)
    /\ werr # "read grouped file"

\* The bucket out of the merge holds, for each domain of the list, the last
\* record the list has for it, and no other domain.
KeepsLast(bucket, list) ==
    /\ Keys(bucket) = Keys(list)
    /\ \A d \in Keys(list) : HoldsOnly(bucket, d, LastRec(list, d))

\* C23 as stated: with an empty newest batch the output of the upgrade holds
\* exactly the entries of the legacy array, each in the bucket of its flag.
C23_SameEntries ==
    (LegacyRead /\ Merged /\ newest = EmptyGrouped) =>
        LET arr == destAtStart.array
        IN /\ \A d \in Domains :
                Entries(UnmarshalGrouped(out), d) \subseteq
                    Entries(existing, d)
           /\ \A i \in 1..Len(arr) :
                LET g == GroupedDomain(arr[i].domain, arr[i].reason,
                                       arr[i].log)
                IN IF arr[i].available
                   THEN \E j \in 1..Len(out.available) : out.available[j] = g
                   ELSE \E j \in 1..Len(out.unavailable) :
                            out.unavailable[j] = g

\* C23: a legacy array is converted entry by entry, into the available bucket
\* when the flag is true and into the unavailable bucket otherwise, with the
\* reason and the log kept; the newest batch is merged into it and the
\* grouped shape is written; with an empty newest batch each bucket of
\* the output holds, for every domain the array lists with that flag, the
\* last entry listed for it, and nothing else.
C23_LegacyUpgrade ==
    LegacyRead =>
        LET arr == destAtStart.array
        IN /\ existing = GroupedData(BucketOf(arr, TRUE), BucketOf(arr, FALSE))
           /\ Merged => out = MarshalGrouped(mergeGrouped(existing, newest))
           /\ (Merged /\ newest = EmptyGrouped) =>
                /\ KeepsLast(out.available, BucketOf(arr, TRUE))
                /\ KeepsLast(out.unavailable, BucketOf(arr, FALSE))
           /\ (wpc = "returned" /\ werr = ErrNil) =>
                /\ dest = out
                /\ dest.shape = "object"

\* A legacy array with one available and one unavailable entry was merged
\* with an empty batch: the file holds the same two entries in the grouped
\* shape.
C23_Witness ==
    /\ wpc = "returned"
    /\ werr = ErrNil
    /\ newest = EmptyGrouped
    /\ destAtStart =
           ArrayFile(<<DomainRecord(1, TRUE, ReasonNoMatch, <<>>),
                       DomainRecord(2, FALSE, ReasonTaken, <<>>)>>)
    /\ dest = ObjectFile(<<GroupedDomain(1, ReasonNoMatch, <<>>)>>,
                         <<GroupedDomain(2, ReasonTaken, <<>>)>>, <<>>)

Ascending(list) ==
    \A i, j \in 1..Len(list) : i < j => list[i].domain < list[j].domain

\* The list in every order.
Perms(list) ==
    LET n == Len(list)
    IN {[i \in 1..n |-> list[p[i]]] :
           p \in {q \in [1..n -> 1..n] :
                    \A i, j \in 1..n : i # j => q[i] # q[j]}}

\* Both lists have the same last record for every domain.
SameLast(l1, l2) ==
    /\ Keys(l1) = Keys(l2)
    /\ \A d \in Keys(l1) : LastRec(l1, d) = LastRec(l2, d)

\* Each bucket of the output is ascending and is what sort.Slice makes of
\* the map in whatever order the map was iterated.
SortedFromMaps ==
    LET m == mergedMaps(existing, newest)
    IN /\ Ascending(out.available)
       /\ Ascending(out.unavailable)
       /\ \A l \in Listings(m.domainsAvail) : SortSlice(l) = out.available
       /\ \A l \in Listings(m.domainsUnavail) : SortSlice(l) = out.unavailable

\* C25 as stated: the buckets are ascending and the output is the same for
\* every order of the lists of the existing store.
C25_OrderIndependent ==
    Merged =>
        /\ SortedFromMaps
        /\ \A pa \in Perms(existing.available) :
             \A pu \in Perms(existing.unavailable) :
                 MarshalGrouped(mergeGrouped(GroupedData(pa, pu), newest))
                     = out

\* C25: each bucket of the merged output is in strictly ascending order of
\* domain, whatever the order of iteration of the maps, and merging the same
\* inputs again gives the same output; the output is the same for every
\* order of the lists of the existing store that leaves, in each list, the
\* last record of every domain the same (every order, when no list names a
\* domain twice).
C25_SortedDeterministic ==
    Merged =>
        /\ SortedFromMaps
        /\ out = MarshalGrouped(mergeGrouped(existing, newest))
        /\ \A pa \in Perms(existing.available) :
             \A pu \in Perms(existing.unavailable) :
                 (/\ SameLast(pa, existing.available)
                  /\ SameLast(pu, existing.unavailable)) =>
                     MarshalGrouped(mergeGrouped(GroupedData(pa, pu), newest))
                         = out

\* The existing store listed two available domains in descending order and
\* the merged output lists them in ascending order.
C25_Witness ==
    /\ Merged
    /\ Len(existing.available) = 2
    /\ existing.available[1].domain > existing.available[2].domain
    /\ Len(out.available) = 2
    /\ out.available[1].domain < out.available[2].domain

\* C26 as stated: the domains of the merged output are those of the
\* existing store and of the newest batch, and every record of the existing
\* store whose domain is not in the newest batch is in the same bucket of
\* the output.
C26_EveryRecordStays ==
    Merged =>
        /\ Keys(out.available) \cup Keys(out.unavailable) =
               Keys(existing.available) \cup Keys(existing.unavailable)
                   \cup NewestKeys
        /\ \A i \in 1..Len(existing.available) :
             existing.available[i].domain \notin NewestKeys =>
                 \E j \in 1..Len(out.available) :
                     out.available[j] = existing.available[i]
        /\ \A i \in 1..Len(existing.unavailable) :
             existing.unavailable[i].domain \notin NewestKeys =>
                 \E j \in 1..Len(out.unavailable) :
                     out.unavailable[j] = existing.unavailable[i]

\* C26: the domains of the merged output are those of the existing store
\* and of the newest batch; a domain that is not in the newest batch is in
\* the buckets of the output in which the existing store lists it, and in
\* no other, once in each, with the reason and log of the last record the
\* existing bucket lists for it.
C26_NoDomainLost ==
    Merged =>
        /\ Keys(out.available) \cup Keys(out.unavailable) =
               Keys(existing.available) \cup Keys(existing.unavailable)
                   \cup NewestKeys
        /\ \A d \in Domains \ NewestKeys :
             /\ d \in Keys(existing.available) =>
                    HoldsOnly(out.available, d,
                              LastRec(existing.available, d))
             /\ d \notin Keys(existing.available) =>
                    d \notin Keys(out.available)
             /\ d \in Keys(existing.unavailable) =>
                    HoldsOnly(out.unavailable, d,
                              LastRec(existing.unavailable, d))
             /\ d \notin Keys(existing.unavailable) =>
                    d \notin Keys(out.unavailable)

\* The store has an unavailable record of domain 1, the batch names only
\* domain 2, and the output holds both.
C26_Witness ==
    /\ Merged
    /\ existing.unavailable = <<GroupedDomain(1, ReasonTaken, <<>>)>>
    /\ existing.available = <<>>
    /\ NewestKeys = {2}
    /\ out.unavailable[1] = GroupedDomain(1, ReasonTaken, <<>>)
    /\ Keys(out.available) \cup Keys(out.unavailable) = {1, 2}

\* How many entries the store of the file has for domain d.
StoredCount(f, d) ==
    Cardinality({i \in 1..Len(f.available) : f.available[i].domain = d})
    + Cardinality({i \in 1..Len(f.unavailable) : f.unavailable[i].domain = d})

\* C27: in a sequence of WriteGroupedFile calls on one destination, a domain
\* that a written batch contained is stored once, in the bucket and with the
\* reason and log of an entry the most recent such batch has for it,
\* whatever the store held for it before.
C27_MostRecentBatchWins ==
    \A d \in DOMAIN latest :
        latest[d] # {} =>
            /\ dest.shape = "object"
            /\ StoredCount(dest, d) = 1
            /\ Entries(UnmarshalGrouped(dest), d) \subseteq latest[d]

\* Domain 1 was unavailable in the store, the batch of this call has it as
\* available and does not name domain 2, which an earlier batch wrote: the
\* file has domain 1 as available and domain 2 as the earlier batch gave it.
C27_Witness ==
    /\ wpc = "returned"
    /\ werr = ErrNil
    /\ DOMAIN latest = Domains
    /\ 1 \in Keys(existing.unavailable)
    /\ 1 \in Keys(newest.available)
    /\ 1 \in Keys(dest.available)
    /\ 1 \notin Keys(dest.unavailable)
    /\ 2 \notin NewestKeys
    /\ latest[2] # {}
    /\ Entries(UnmarshalGrouped(dest), 2) \subseteq latest[2]

\* C30: after a run of RunCLIGroupedInput that wrote the file, the file has
\* no unverified entry, every domain that was unverified is in available
\* when its check gave NO_MATCH and in unavailable otherwise, with the
\* reason and log of the check, and the available and unavailable entries
\* the file had are still there, in their buckets.
C30_GroupedInputProcessed ==
    \A run \in ginput :
        run.code = 0 =>
            LET before == run.before
                n == Len(before.unverified)
            IN /\ dest.shape = "object"
               /\ dest.unverified = <<>>
               /\ \A i \in 1..n :
                    LET d == before.unverified[i].domain
                        res == checkResult(d, run.envs[i], verbose)
                        g == GroupedDomain(d, res.Reason, res.Log)
                    IN /\ res.Avail <=> res.Reason = ReasonNoMatch
                       /\ res.Reason = ReasonNoMatch =>
                            \E j \in 1..Len(dest.available) :
                                dest.available[j] = g
                       /\ res.Reason # ReasonNoMatch =>
                            \E j \in 1..Len(dest.unavailable) :
                                dest.unavailable[j] = g
               /\ Len(dest.available) + Len(dest.unavailable) =
                      Len(before.available) + Len(before.unavailable) + n
               /\ \A j \in 1..Len(before.available) :
                      dest.available[j] = before.available[j]
               /\ \A j \in 1..Len(before.unavailable) :
                      dest.unavailable[j] = before.unavailable[j]

\* A file with an available entry and an unverified domain was processed:
\* the lookup of the domain failed, so it is unavailable with reason ERROR,
\* and the available entry is still there.
C30_Witness ==
    \E run \in ginput :
        /\ run.code = 0
        /\ Len(run.before.available) = 1
        /\ Len(run.before.unverified) = 1
        /\ dest.available = run.before.available
        /\ Len(dest.unavailable) = 1
        /\ dest.unavailable[1].reason = ReasonError
        /\ dest.unavailable[1].domain = run.before.unverified[1].domain
        /\ dest.unverified = <<>>

(***************************************************************************)
(* Properties of a run of RunCLIDomainArray and of what it writes.         *)
(***************************************************************************)
\* C31: in a run with grouped output and an output file, the input file
\* holds at every step what it held when the run began, and when the run
\* has succeeded the output file holds the merge of what it held with the
\* buckets of the results.
C31_InputUntouched ==
    (groupedOutput /\ outputFile # "") =>
        /\ inputFile = InputArray(domains)
        /\ (wpc = "returned" /\ werr = ErrNil) =>
               dest = MarshalGrouped(
                          mergeGrouped(existing,
                                       AppendResults(EmptyGrouped, results)))

\* A list of domains was checked and its results replaced the output file,
\* while the input file still lists the domains as unchecked.
C31_Witness ==
    /\ groupedOutput
    /\ outputFile = OutputPath
    /\ wpc = "returned"
    /\ werr = ErrNil
    /\ Len(domains) = MaxJobs
    /\ dest # destAtStart
    /\ dest.shape = "object"
    /\ Len(dest.available) > 0
    /\ inputFile = InputArray(domains)
    /\ inputFile # dest

(***************************************************************************)
(* Properties of what Lookup returns and of its connection.                *)
(***************************************************************************)
\* C32: Lookup returns either a non-empty response and no error, or an
\* empty response and an error; bytes read before a failing read are not
\* returned.
C32_OutcomeDichotomy ==
    lpc \in {"returned", "checked"} =>
        /\ \/ lret.resp # <<>> /\ lret.err = ErrNil
           \/ lret.resp = <<>> /\ lret.err # ErrNil
        /\ (lenv.dial /\ lenv.write
              /\ lenv.readErr \notin {ErrNil, ErrEOF}) =>
               lret.resp = <<>>

\* The server sent bytes and the read then failed with a timeout: Lookup
\* returns the read error and no bytes.
C32_Witness ==
    /\ lpc = "returned"
    /\ lenv.dial /\ lenv.write
    /\ lenv.data # <<>>
    /\ lenv.readErr = ErrTimeout
    /\ lret.resp = <<>>
    /\ lret.err = "read error"

\* C33: when Lookup has returned, a connection it opened is closed,
\* whatever step failed, and no connection is closed that was not opened;
\* after a failed half-close the response is still read.
C33_NoConnectionLeak ==
    lpc \in {"returned", "checked"} =>
        /\ lenv.dial =>
               /\ conn = "closed"
               /\ \E i \in 1..Len(ltrace) : ltrace[i] = "close"
        /\ ~lenv.dial =>
               /\ conn = "none"
               /\ \A i \in 1..Len(ltrace) : ltrace[i] # "close"
        /\ (lenv.dial /\ lenv.write /\ ~lenv.closeWrite) =>
               /\ \E i \in 1..Len(ltrace) : ltrace[i] = "read"
               /\ lret = ReadResult(lenv.data, lenv.readErr)

\* The half-close failed, the response was read and returned, and the
\* connection is closed.
C33_Witness ==
    /\ lpc = "returned"
    /\ lenv.dial /\ lenv.write /\ ~lenv.closeWrite
    /\ lret.err = ErrNil
    /\ lret.resp = lenv.data
    /\ conn = "closed"

(***************************************************************************)
(* Properties of mergeGrouped on batches that list a domain more than      *)
(* once.                                                                   *)
(***************************************************************************)
\* C34: a domain that the newest batch lists both as available and as
\* unavailable is, in the merged output, in the unavailable bucket only,
\* with the last record the newest unavailable list has for it.
C34_ConflictInBatch ==
    Merged =>
        \A d \in Keys(newest.available) \cap Keys(newest.unavailable) :
            /\ d \notin Keys(out.available)
            /\ HoldsOnly(out.unavailable, d, LastRec(newest.unavailable, d))

\* The newest batch lists one domain in both lists, and the store had it as
\* available: the output has it as unavailable only.
C34_Witness ==
    /\ Merged
    /\ \E d \in Keys(newest.available) \cap Keys(newest.unavailable) :
          /\ d \in Keys(existing.available)
          /\ d \in Keys(out.unavailable)
          /\ d \notin Keys(out.available)

\* The number of entries of a list that are about a domain.
Listed(list, d) == Cardinality({i \in 1..Len(list) : list[i].domain = d})

\* C35: no bucket of the merged output lists a domain twice, and the record
\* a bucket holds for a domain is the last one of the newest list of that
\* bucket, or, for a domain the newest batch does not list, the last one of
\* the store's list of that bucket.
C35_NoDuplicateInBucket ==
    Merged =>
        /\ \A d \in Keys(out.available) : Listed(out.available, d) = 1
        /\ \A d \in Keys(out.unavailable) : Listed(out.unavailable, d) = 1
        /\ \A d \in Keys(newest.unavailable) :
              HoldsOnly(out.unavailable, d, LastRec(newest.unavailable, d))
        /\ \A d \in Keys(newest.available) \ Keys(newest.unavailable) :
              HoldsOnly(out.available, d, LastRec(newest.available, d))
        /\ \A d \in Keys(existing.available) \ NewestKeys :
              HoldsOnly(out.available, d, LastRec(existing.available, d))
        /\ \A d \in Keys(existing.unavailable) \ NewestKeys :
              HoldsOnly(out.unavailable, d, LastRec(existing.unavailable, d))

\* A list names one domain twice with different records, and the output
\* holds the domain once, with the second of them.
C35_Witness ==
    /\ Merged
    /\ \E d \in Keys(existing.unavailable) \ NewestKeys :
          /\ Listed(existing.unavailable, d) = 2
          /\ existing.unavailable[1] # existing.unavailable[2]
          /\ Listed(out.unavailable, d) = 1
          /\ \E i \in 1..Len(out.unavailable) :
                out.unavailable[i] = existing.unavailable[2]

(***************************************************************************)
(* Properties of the reason of a checked domain.                           *)
(***************************************************************************)
\* C36: CheckDomainAvailabilityWithClient reports a domain as available
\* exactly when the reason is NO_MATCH and returns an error exactly when
\* the reason is ERROR; the record of the available bucket of a batch has
\* the reason NO_MATCH and the record of the unavailable bucket the reason
\* TAKEN or ERROR.
C36_ReasonMatchesBucket ==
    lpc = "checked" =>
        /\ lclass.avail <=> lclass.reason = ReasonNoMatch
        /\ lclass.err # ErrNil <=> lclass.reason = ReasonError
        /\ lclass.reason \in {ReasonNoMatch, ReasonTaken, ReasonError}
        /\ lcheck.Avail = lclass.avail
        /\ lcheck.Reason = lclass.reason
        /\ LET batchOf == AppendResults(EmptyGrouped, <<lcheck>>)
           IN /\ \A i \in 1..Len(batchOf.available) :
                    batchOf.available[i].reason = ReasonNoMatch
              /\ \A i \in 1..Len(batchOf.unavailable) :
                    batchOf.unavailable[i].reason \in
                        {ReasonTaken, ReasonError}
              /\ Len(batchOf.available) + Len(batchOf.unavailable) = 1

\* A lookup failed: the classification returns the error with the reason
\* ERROR, and the record is in the unavailable bucket.
C36_Witness ==
    /\ lpc = "checked"
    /\ lret.err # ErrNil
    /\ lclass.err = lret.err
    /\ lclass.reason = ReasonError
    /\ ~lclass.avail
    /\ Len(AppendResults(EmptyGrouped, <<lcheck>>).unavailable) = 1

(***************************************************************************)
(* Properties of the spinner.                                              *)
(***************************************************************************)
\* C37: a call of Stop eventually returns; when it has returned, the
\* spinner goroutine has seen the stop signal, has cleared the line, has
\* closed done and has ended, and it writes nothing from then on.
C37_StopHandshake ==
    /\ [](caller = "returned" =>
            /\ stopCh = "closed"
            /\ doneCh = "closed"
            /\ line = "cleared"
            /\ spc = "exited")
    /\ [][caller = "returned" =>
            UNCHANGED <<spc, line, frameNo, shown, doneCh>>]_vars
    /\ (caller = "waiting") ~> (caller = "returned")

\* Stop has returned after the spinner had shown more frames than it has
\* frame symbols.
C37_Witness ==
    /\ caller = "returned"
    /\ spc = "exited"
    /\ line = "cleared"
    /\ frameNo > SpinnerFrames

====
